---- MODULE Spec2Model ----
(***************************************************************************)
(* Verification model of the trading assistant's decision-and-orchestration *)
(* engine: the job ledger (orchestrator_runs) with its admission handlers   *)
(* and background runs, the scheduled runner and the CLI entry point, and   *)
(* the risk controller's sizing arithmetic, and the rate-limited retry     *)
(* wrapper around the AI calls.                                            *)
(*                                                                         *)
(* The specifications of the module:                                       *)
(*   Spec      the ledger: API admissions, background tasks, scheduled and  *)
(*             CLI runs, under any interleaving;                            *)
(*   RiskSpec  the risk controller: a store state drawn from bounded sets,  *)
(*             then validate_trade / calculate_position_size calls.         *)
(*   RetrySpec the retry wrapper: threads in call_with_retry, the shared   *)
(*             gate and a clock of whole seconds;                          *)
(*   RetryLiveSpec  the same with fair scheduling, for termination;       *)
(*   MarketSpec  a market-hours or review run: the recommendation loop,   *)
(*             the validation loop and the batch notification.            *)
(***************************************************************************)
EXTENDS Integers, Sequences, FiniteSets, TLC

\* ---------------------------------------------------------------- bounds
NReq == 3        \* API request slots (each slot is one HTTP request)
MaxJobs == 3     \* rows the ledger may hold
MaxDecisions == 2  \* rows the risk_decisions audit log may hold
NCallers == 2      \* threads that call call_with_retry
MaxActive == 1     \* calls under way at once where termination is checked
MaxBusy == 2       \* requests and processes under way at once where the
                   \* ending of the jobs is checked
MaxLive == 2       \* requests sent, and rows written, where it is checked
NSymbols == 2      \* symbols a market or review run goes through
MaxElapsed == 1    \* hours that pass during a market or review run

\* ------------------------------------------------------------- constants
Req == 1..NReq
JobIds == 1..MaxJobs
\* the process started outside the API: the scheduled runner or the CLI
DirectId == MaxJobs + 1
ProcIds == 1..(MaxJobs + 1)

ValidModes == {"premarket", "market", "postmarket", "review"}
SchedValidModes == {"premarket", "market", "postmarket"}
\* request bodies the model sends: two valid modes and one invalid one
ReqModeInputs == {"market", "postmarket", "bogus"}
SchedModeInputs == {"market", "postmarket"}
\* --mode values of the CLI; "closed" is what get_current_mode gives for auto
CliModeInputs == {"market", "postmarket", "closed"}
Errs == {"E1"}
EvalResults == {"completed", "failed"}

\* ------------------------------------------------- risk controller: constants
\* The store holds money in whole dollars; fractions (the configured
\* percentages, the stop multiplier) are integers in thousandths, and every
\* derived amount that a fraction enters is carried in thousandths of a dollar,
\* so that the arithmetic below is the exact value of the code's expressions.
Mils == 1000
MAX_POSITION_SIZE_PCT == 200       \* 0.20
MAX_SECTOR_EXPOSURE_PCT == 400     \* 0.40
MAX_VOLATILITY_PCT == 100          \* 0.10
RISK_PER_TRADE_PCT == 15           \* 0.015
STOP_LOSS_ATR_MULTIPLIER == 2500   \* 2.5
FALLBACK_STOP_PCT == 950           \* price * 0.95
DEFAULT_EQUITY == 10000            \* portfolio[0] if portfolio else 10000
DEFAULT_CASH == 10000              \* portfolio[1] if portfolio else 10000

\* ---------------------------------------------------- risk controller: inputs
\* latest market_data row of the symbol (has = FALSE: no row)
MarketInputs ==
    {[has |-> FALSE, price |-> 0, atr |-> 0]}
    \cup [has : {TRUE}, price : {0, 50, 100}, atr : {0, 4, 12}]

\* latest portfolio_snapshot row; a pending debit larger than the cash
\* positions makes cash_balance negative
PortfolioInputs ==
    {[has |-> FALSE, total_equity |-> 0, cash_balance |-> 0]}
    \cup [has : {TRUE}, total_equity : {10000}, cash_balance : {-550, 120, 5000}]
    \cup {[has |-> TRUE, total_equity |-> 2000, cash_balance |-> 1000],
          [has |-> TRUE, total_equity |-> 0, cash_balance |-> 0]}

\* the symbol's holdings row of the latest snapshot; quantity is a decimal
\* (the import keeps fractional shares), held here in thousandths of a share
PositionInputs ==
    {[has |-> FALSE, quantity |-> 0, current_value |-> 0],
     [has |-> TRUE, quantity |-> 500, current_value |-> 50],
     [has |-> TRUE, quantity |-> 10000, current_value |-> 1000],
     [has |-> TRUE, quantity |-> 10500, current_value |-> 1050],
     [has |-> TRUE, quantity |-> 19000, current_value |-> 1950],
     [has |-> TRUE, quantity |-> 25000, current_value |-> 2500]}

\* stock_metadata.sector of the symbol ("Unknown": no row) and the summed value
\* of the holdings of that sector
SectorInputs ==
    {[sector |-> "Unknown", total |-> 0],
     [sector |-> "Technology", total |-> 0],
     [sector |-> "Technology", total |-> 2600],
     [sector |-> "Technology", total |-> 3500]}

\* what an import can leave behind: holdings hang on a snapshot, the snapshot's
\* equity is the value of its holdings plus its cash, and the symbol's own
\* holding counts in its sector's total
ValidStore(s) ==
    /\ (s.position.has \/ s.sector.total # 0) => s.portfolio.has
    /\ s.portfolio.has =>
          /\ s.position.current_value <= s.portfolio.total_equity - s.portfolio.cash_balance
          /\ s.sector.total <= s.portfolio.total_equity - s.portfolio.cash_balance
    /\ (s.position.has /\ s.sector.sector # "Unknown") =>
          s.sector.total >= s.position.current_value

StoreInputs ==
    {s \in [market : MarketInputs, portfolio : PortfolioInputs,
            position : PositionInputs, sector : SectorInputs] : ValidStore(s)}

\* recommendation.get('stop_loss'): 0 stands for an absent (None) or zero stop,
\* which `not stop_loss` treats alike
StopLossInputs == {0, 43, 90, 100, 110}
ActionInputs == {"BUY", "SELL", "HOLD", "SHORT"}
RecInputs ==
    [action : {"BUY"}, stop_loss : StopLossInputs]
    \cup [action : ActionInputs \ {"BUY"}, stop_loss : {0}]

\* arguments of calculate_position_size
SizeInputs == [entry_price : {100, 200}, stop_loss_price : {0, 190}]

\* ------------------------------------------------ retry wrapper: constants
\* utils/gemini_client.py; times are whole seconds
MIN_CALL_INTERVAL == 4      \* _MIN_CALL_INTERVAL = 4.0
RETRY_BASE_DELAY == 10      \* _RETRY_BASE_DELAY = 10.0
MAX_RETRIES == 3            \* _MAX_RETRIES = 3

Callers == 1..NCallers

\* arguments of call_with_retry; <<>> is None, which takes the module's default
RetryArgInputs ==
    {[max_retries |-> <<>>, base_delay |-> <<1>>],
     [max_retries |-> <<0>>, base_delay |-> <<>>]}

\* what call_fn raises: the exception's type name and the markers its text holds
ErrorInputs ==
    {[type |-> "ResourceExhausted", text |-> {}],
     [type |-> "ValueError", text |-> {"429"}],
     [type |-> "ValueError", text |-> {}]}

\* ------------------------------------------- strategy planner: constants
\* agents/strategy_planner.py; confidences are in hundredths, ages in hours
MARKET_DATA_TTL == 24        \* strategy_data_ttl_hours, default 24
FALLBACK_CONFIDENCE == 30    \* 'confidence': 0.3
SCREENED_CONFIDENCE == 40    \* confidence = 0.4

Symbols == 1..NSymbols

\* the symbol's latest market_data row as the planner reads it: price, sma_50
\* (0 is NULL), is_volatile and the age of its timestamp
MarketRowInputs ==
    {[has |-> FALSE, price |-> 0, sma_50 |-> 0, is_volatile |-> FALSE, age |-> 0],
     [has |-> TRUE, price |-> 0, sma_50 |-> 0, is_volatile |-> FALSE, age |-> 1],
     [has |-> TRUE, price |-> 100, sma_50 |-> 0, is_volatile |-> TRUE, age |-> 1]}
    \cup [has : {TRUE}, price : {100}, sma_50 : {0, 110}, is_volatile : {FALSE}, age : {1}]
    \cup [has : {TRUE}, price : {100}, sma_50 : {90}, is_volatile : {FALSE},
          age : {1, 24, 30}]

\* the quantity of the symbol's holdings row, in thousandths of a share (0: none)
QuantityInputs == {0, 10000}

\* what the AI step gives: no model configured, None from call_with_retry, a
\* text that holds no JSON, a JSON text that is not an object, or an object
AiInputs ==
    [kind : {"unconfigured", "None", "unparsable", "not_object"},
     action : {""}, stop_loss : {0}, confidence : {0}]
    \cup [kind : {"object"}, action : {"BUY", "SELL", "HOLD", "SKIP"},
          stop_loss : {0}, confidence : {85}]

\* the modes whose routine recommends, validates and notifies
RunModeInputs == {"market", "review"}

\* the tickers of the monitoring lists and the lists the config, the holdings
\* and the screener can give (a list may name a ticker twice)
Tickers == {"AAPL", "MSFT", "NVDA"}
TickerLists ==
    {<<>>} \cup {<<a>> : a \in Tickers} \cup {<<a, b>> : a, b \in Tickers}

\* what the screener step gives: no screener configured, screen_stocks raises,
\* or it returns a list
ScreenInputs ==
    [kind : {"disabled", "raises"}, screened : {<<>>}]
    \cup [kind : {"returns"}, screened : TickerLists]

VARIABLES
    store,          \* what the risk controller reads: market_data, portfolio_snapshot,
                    \* holdings and stock_metadata for the symbol
    call,           \* the latest call of the risk controller and its arguments
    result,         \* what that call returned
    risk_decisions, \* the audit log: sequence of rows
    rateLock,       \* _rate_lock: the caller holding it (0: free)
    lastCallAge,    \* seconds since _last_call_time was set (counted up to the interval)
    lastStartAge,   \* seconds since call_fn was last entered (counted up to the interval)
    caller,         \* the threads inside call_with_retry
    mkt,            \* the market / review run: where it is, hours elapsed
    planned,        \* the latest generate_recommendation call and what it returned
    recommendations, \* the recommendations the run hands to the risk controller
    validations,    \* what validate_trade answered in the run, in order
    approved_trades, \* the approved ones, in order
    batches,        \* the send_batch_alerts calls of the run
    monitoring,     \* a _get_monitoring_symbols call: its inputs and what it returned
    runs,         \* orchestrator_runs: sequence of rows, the row id is the index
    dbLock,       \* request holding the database write lock (0: free)
    req,          \* the API admission handlers, one per request slot
    proc,         \* background tasks (by job id) and the scheduled runner / CLI process
    batch,        \* observer: /run attempts in flight during the current idle period
    nextAttempt   \* observer: the /run attempt made next after the latest failed job
                  \*           (-1: a job just failed, none made yet; 0: not tracked)

ledgerVars == <<runs, dbLock, req, proc, batch, nextAttempt>>
riskVars == <<store, call, result, risk_decisions>>
retryVars == <<rateLock, lastCallAge, lastStartAge, caller>>
marketVars == <<mkt, planned, recommendations, validations, approved_trades, batches,
                monitoring>>
vars == <<runs, dbLock, req, proc, batch, nextAttempt, store, call, result, risk_decisions,
          rateLock, lastCallAge, lastStartAge, caller,
          mkt, planned, recommendations, validations, approved_trades, batches,
          monitoring>>

\* ------------------------------------------------------------ the ledger
NewRow(mode, status, started, completed, err, by) ==
    [mode |-> mode, status |-> status, started_at |-> started,
     completed_at |-> completed, error_message |-> err, logs |-> <<>>,
     triggered_by |-> by]

\* the clock value written into started_at / completed_at (0 is NULL)
Now == 1

RowIds(rs) == 1..Len(rs)

\* variant: the count looks for running rows only
ActiveCountRunningOnly(rs) ==
    Cardinality({j \in RowIds(rs) : rs[j].status = "running"})

\* variant: the count takes every row that is not completed for an active one
ActiveCountNotCompleted(rs) ==
    Cardinality({j \in RowIds(rs) : rs[j].status # "completed"})

\* SELECT COUNT(*) ... WHERE status IN ('pending', 'running')
ActiveCount(rs) ==
    Cardinality({j \in RowIds(rs) : rs[j].status \in {"pending", "running"}})

\* SELECT COUNT(*) ... WHERE mode = 'evaluate' AND status IN ('pending', 'running')
EvalActiveCount(rs) ==
    Cardinality({j \in RowIds(rs) :
        rs[j].mode = "evaluate" /\ rs[j].status \in {"pending", "running"}})

\* variant: the Conflict branch records the rejected attempt as a failed row
RollbackRowsLogsFailure(rs, mode) ==
    Append(rs, [mode |-> mode, status |-> "failed", started_at |-> 0,
                completed_at |-> 0, error_message |-> "Conflict", logs |-> <<>>,
                triggered_by |-> "manual"])

\* conn.rollback() on the Conflict branch: the rows are what they were
RollbackRows(rs, mode) == rs

\* INSERT INTO orchestrator_runs (mode, status, triggered_by) VALUES (?, 'pending', 'manual')
InsertPending(rs, mode) == Append(rs, NewRow(mode, "pending", 0, 0, "", "manual"))

\* variant: the UPDATE sets logs to the new line
AppendLogOverwrites(rs, j, msg) == [rs EXCEPT ![j].logs = <<msg>>]

\* UPDATE orchestrator_runs SET logs = COALESCE(logs, '') || ? WHERE id = ?
AppendLog(rs, j, msg) == [rs EXCEPT ![j].logs = Append(@, msg)]

\* UPDATE ... SET status = 'running', started_at = ? WHERE id = ?
MarkRunning(rs, j) == [rs EXCEPT ![j].status = "running", ![j].started_at = Now]

\* variant: the UPDATE lacks its WHERE clause and marks every row
MarkCompletedNoWhere(rs, j) ==
    [k \in RowIds(rs) |-> [rs[k] EXCEPT !.status = "completed", !.completed_at = 1]]

\* UPDATE ... SET status = 'completed', completed_at = ? WHERE id = ?
MarkCompleted(rs, j) == [rs EXCEPT ![j].status = "completed", ![j].completed_at = Now]

\* variant: the except block records the error and leaves the status alone
MarkFailedKeepsStatus(rs, j, e) ==
    [rs EXCEPT ![j].completed_at = Now, ![j].error_message = e]

\* UPDATE ... SET status = 'failed', completed_at = ?, error_message = ? WHERE id = ?
MarkFailed(rs, j, e) ==
    [rs EXCEPT ![j].status = "failed", ![j].completed_at = Now,
               ![j].error_message = e]

\* UPDATE ... SET status = ?, completed_at = ?, logs = ? WHERE id = ?
MarkEvaluated(rs, j, status, summary) ==
    [rs EXCEPT ![j].status = status, ![j].completed_at = Now,
               ![j].logs = <<summary>>]

\* variant: the guard counts today's rows of the mode whatever their status
HasRunTodayAnyStatus(rs, mode) ==
    Cardinality({j \in RowIds(rs) : rs[j].mode = mode /\ rs[j].started_at # 0}) > 0

\* TradingOrchestrator._has_run_today: a completed row of the mode dated today
\* (Spec covers one calendar day: every started_at that is set is today's)
HasRunToday(rs, mode) ==
    Cardinality({j \in RowIds(rs) :
        rs[j].mode = mode /\ rs[j].status = "completed"
        /\ rs[j].started_at # 0}) > 0

\* TradingOrchestrator._log_run
LogRunRow(rs, mode, status, e) ==
    Append(rs, NewRow(mode, status, Now, Now, e, "scheduled"))

\* run_scheduled.log_run
SchedLogRow(rs, mode, status, e) ==
    Append(rs, NewRow(mode, status, Now, 0, e, "scheduled"))

\* ------------------------------------------------------ process records
NewReq == [pc |-> "new", kind |-> "", mode |-> "", outcome |-> "", job_id |-> 0]
IdleProc == [pc |-> "idle", kind |-> "", mode |-> "", err |-> "", res |-> ""]

\* a process that ends keeps only what it was; its locals are gone
Ended(kind) == [pc |-> "done", kind |-> kind, mode |-> "", err |-> "", res |-> ""]

\* where control goes when run() returns, by the caller: _run_orchestrator logs
\* success, run_scheduled logs "completed", the CLI exits
AfterReturn(kind) ==
    IF kind = "api" THEN "b_ok" ELSE IF kind = "sched" THEN "s_log" ELSE "done"

\* where control goes when run() raises, by the caller: _run_orchestrator's and
\* run_scheduled's except blocks, the CLI dies with the traceback
AfterRaise(kind) ==
    IF kind = "api" THEN "b_err" ELSE IF kind = "sched" THEN "s_logfail" ELSE "done"

\* where TradingOrchestrator.run(mode) starts: run_postmarket begins with the
\* guard, the other routines with their body, any other mode does nothing
PipeEntry(kind, mode) ==
    IF mode = "postmarket" THEN "p_guard"
    ELSE IF mode \in ValidModes THEN "p_body"
    ELSE AfterReturn(kind)

SetPc(p, pc, e) == IF pc = "done" THEN Ended(p.kind) ELSE [p EXCEPT !.pc = pc, !.err = e]

\* a pipeline routine is executing in process p
PipePcs == {"p_guard", "p_body"}
Executing(p) == proc[p].pc \in PipePcs

\* ------------------------------------------------- the ledger's row budget
RECURSIVE SumOver(_, _)
SumOver(S, f) ==
    IF S = {} THEN 0
    ELSE LET x == CHOOSE y \in S : TRUE IN f[x] + SumOver(S \ {x}, f)

\* the row run_postmarket logs once its guard is passed
BodyRow(mode) == IF mode = "postmarket" THEN 1 ELSE 0

\* the row a run may log whose guard is still ahead: none once today's
\* completed row is there, for the guard will then skip
PostRow(mode) == IF HasRunToday(runs, "postmarket") THEN 0 ELSE BodyRow(mode)

\* rows a request may still insert: its job row and the row of run_postmarket
NeedReq(q) ==
    IF q.pc \in {"begin", "tx"} THEN 1 + (IF q.kind = "run" THEN PostRow(q.mode) ELSE 0)
    ELSE 0

\* rows a process may still insert: run_postmarket's row, run_scheduled's row
NeedProc(p) ==
    (IF p.pc \in {"b_start", "p_guard"} THEN PostRow(p.mode) ELSE 0)
    + (IF p.pc = "p_body" THEN BodyRow(p.mode) ELSE 0)
    + (IF p.kind = "sched" /\ p.pc # "done" THEN 1 ELSE 0)

Need ==
    SumOver(Req, [r \in Req |-> NeedReq(req[r])])
    + SumOver(ProcIds, [p \in ProcIds |-> NeedProc(proc[p])])

\* the model stops starting work that could not log its rows within MaxJobs
Room(n) == Len(runs) + Need + n <= MaxJobs

\* ------------------------------------------------------ the risk controller
\* Python's int(n / d): the quotient truncated toward zero
Trunc(n, d) ==
    LET an == IF n < 0 THEN -n ELSE n
        ad == IF d < 0 THEN -d ELSE d
        q == an \div ad
    IN IF (n < 0) = (d < 0) THEN q ELSE -q

\* RiskController._get_risk_context
GetRiskContext(s) ==
    [price |-> IF s.market.has THEN s.market.price ELSE 0,
     atr |-> IF s.market.has THEN s.market.atr ELSE 0,
     portfolio_equity |-> IF s.portfolio.has THEN s.portfolio.total_equity ELSE DEFAULT_EQUITY,
     cash_balance |-> IF s.portfolio.has THEN s.portfolio.cash_balance ELSE DEFAULT_CASH,
     current_quantity |-> IF s.position.has THEN s.position.quantity ELSE 0,
     current_position_value |-> IF s.position.has THEN s.position.current_value ELSE 0,
     sector |-> s.sector.sector,
     sector_exposure |-> IF s.sector.sector # "Unknown" THEN s.sector.total ELSE 0]

\* a returned dict: keys names the entries it has, an entry it lacks reads 0
NoResult ==
    [keys |-> {}, approved |-> FALSE, reason |-> "", approved_shares |-> 0,
     approved_cost |-> 0, calculated_stop_loss |-> 0, risk_per_trade |-> 0,
     position_pct |-> 0, approved_value |-> 0, error |-> "", shares |-> 0, cost |-> 0,
     stop_loss |-> 0, risk_amount |-> 0, risk_per_share |-> 0]

\* variant: a violated rule raises instead; the caller gets no decision
VetoRaised(reason) == [NoResult EXCEPT !.error = reason]

\* {'approved': False, 'reason': ...}
Veto(reason) ==
    [NoResult EXCEPT !.keys = {"approved", "reason"}, !.reason = reason]

\* variant: the ATR stop is taken whenever there is an ATR, the recommendation's
\* stop only without one
StopLossAtrFirst(stop_loss, price, atr) ==
    IF atr # 0 THEN price * Mils - STOP_LOSS_ATR_MULTIPLIER * atr
    ELSE IF stop_loss = 0 THEN price * FALLBACK_STOP_PCT
    ELSE stop_loss * Mils

\* the stop: the recommendation's, else 2.5 x ATR below the price, else 5% below
\* (thousandths of a dollar)
StopLoss(stop_loss, price, atr) ==
    IF stop_loss = 0 /\ atr # 0 THEN price * Mils - STOP_LOSS_ATR_MULTIPLIER * atr
    ELSE IF stop_loss = 0 THEN price * FALLBACK_STOP_PCT
    ELSE stop_loss * Mils

\* variant: the risk-sized share count is rounded up past the risk budget
ProposedSharesRoundedUp(risk_amount, risk_per_share) ==
    Trunc(risk_amount, risk_per_share) + 1

\* proposed_shares = int(risk_amount / risk_per_share)
ProposedShares(risk_amount, risk_per_share) == Trunc(risk_amount, risk_per_share)

\* variant: the room under the position cap forgets the position already held
MaxAllowedCostIgnoresHolding(max_position, current_position_value) == max_position

\* max_allowed_cost = max_position - current_position_value
MaxAllowedCost(max_position, current_position_value) ==
    max_position - current_position_value * Mils

\* (new_position_value / equity) * 100, in thousandths of a percent
PositionPct(position_value, equity) == Trunc(position_value * 100 * Mils, equity)

\* variant: the volatility filter is switched off
ExcessiveVolatilityIgnored(atr, price) == FALSE

\* check 5: atr and price > 0 and atr / price > MAX_VOLATILITY_PCT
ExcessiveVolatility(atr, price) ==
    atr # 0 /\ price > 0 /\ atr * Mils > MAX_VOLATILITY_PCT * price

\* variant: the sector check is switched off
SectorLimitIgnored(new_sector_exposure, max_sector) == FALSE

\* check 4: new_sector_exposure > max_sector
SectorLimitExceeded(new_sector_exposure, max_sector) ==
    new_sector_exposure * Mils > max_sector

\* RiskController._validate_buy
ValidateBuy(rec, context) ==
    LET price == context.price
        atr == context.atr
        equity == context.portfolio_equity
        cash == context.cash_balance
        current_position_value == context.current_position_value
        sector_exposure == context.sector_exposure
        risk_amount == equity * RISK_PER_TRADE_PCT
        stop_loss == StopLoss(rec.stop_loss, price, atr)
        risk_per_share == price * Mils - stop_loss
        risk_shares == ProposedShares(risk_amount, risk_per_share)
        risk_cost == risk_shares * price
        \* check 2: the cash cap
        short_of_cash == risk_cost > cash
        cash_shares == IF short_of_cash THEN Trunc(cash, price) ELSE risk_shares
        cash_cost == cash_shares * price
        \* check 3: the position cap; new_position_value is not computed again
        \* after the reduction
        new_position_value == current_position_value + cash_cost
        max_position == equity * MAX_POSITION_SIZE_PCT
        over_cap == new_position_value * Mils > max_position
        max_allowed_cost == MaxAllowedCost(max_position, current_position_value)
        proposed_shares == IF over_cap THEN Trunc(max_allowed_cost, price * Mils)
                           ELSE cash_shares
        proposed_cost == proposed_shares * price
        new_sector_exposure == sector_exposure + proposed_cost
        max_sector == equity * MAX_SECTOR_EXPOSURE_PCT
    IN IF price <= 0 THEN Veto("Invalid price data")
       ELSE IF risk_per_share <= 0 THEN Veto("Stop loss is above entry price (invalid setup)")
       ELSE IF risk_shares < 1 THEN Veto("Position size too small")
       ELSE IF short_of_cash /\ cash_shares < 1 THEN Veto("Insufficient cash")
       ELSE IF over_cap /\ max_allowed_cost < price * Mils THEN Veto("Position size limit")
       ELSE IF over_cap /\ proposed_shares < 1 THEN Veto("Cannot add to position")
       ELSE IF SectorLimitExceeded(new_sector_exposure, max_sector) THEN Veto("Sector limit")
       ELSE IF ExcessiveVolatility(atr, price) THEN Veto("Excessive volatility")
       ELSE [NoResult EXCEPT
               !.keys = {"approved", "reason", "approved_shares", "approved_cost",
                         "calculated_stop_loss", "risk_per_trade", "position_pct"},
               !.approved = TRUE,
               !.reason = "All risk checks passed",
               !.approved_shares = proposed_shares,
               !.approved_cost = proposed_cost,
               !.calculated_stop_loss = stop_loss,
               !.risk_per_trade = risk_amount,
               !.position_pct = PositionPct(new_position_value, equity)]

\* 'approved_shares': int(current_quantity)
SellShares(current_quantity) == Trunc(current_quantity, Mils)

\* RiskController._validate_sell (approved_value in thousandths of a dollar)
ValidateSell(rec, context) ==
    LET current_quantity == context.current_quantity
        price == context.price
    IN IF current_quantity <= 0 THEN Veto("Cannot sell. No position held.")
       ELSE [NoResult EXCEPT
               !.keys = {"approved", "reason", "approved_shares", "approved_value"},
               !.approved = TRUE,
               !.reason = "Sell approved",
               !.approved_shares = SellShares(current_quantity),
               !.approved_value = IF price # 0 THEN current_quantity * price ELSE 0]

\* RiskController._log_decision: the row it inserts (approved_shares is NULL,
\* here <<>>, when the result has no such entry)
LogDecision(log, rec, res) ==
    Append(log, [action |-> rec.action,
                 approved |-> IF res.approved THEN 1 ELSE 0,
                 reason |-> res.reason,
                 approved_shares |-> IF "approved_shares" \in res.keys
                                     THEN <<res.approved_shares>> ELSE <<>>])

\* RiskController.calculate_position_size
PositionSize(entry_price, stop_loss_price, context) ==
    LET equity == context.portfolio_equity
        cash == context.cash_balance
        atr == context.atr
        risk_amount == equity * RISK_PER_TRADE_PCT
        stop_loss == StopLoss(stop_loss_price, entry_price, atr)
        risk_per_share == entry_price * Mils - stop_loss
        risk_shares == Trunc(risk_amount, risk_per_share)
        risk_cost == risk_shares * entry_price
        \* cap by available cash
        cash_shares == IF risk_cost > cash THEN Trunc(cash, entry_price) ELSE risk_shares
        cash_cost == cash_shares * entry_price
        \* cap by position size limit
        max_position == equity * MAX_POSITION_SIZE_PCT
        over_cap == cash_cost * Mils > max_position
        shares == IF over_cap THEN Trunc(max_position, entry_price * Mils) ELSE cash_shares
        cost == shares * entry_price
    IN IF risk_per_share <= 0
       THEN [NoResult EXCEPT !.keys = {"error", "shares", "cost"},
                             !.error = "Stop loss must be below entry price"]
       ELSE [NoResult EXCEPT
               !.keys = {"shares", "cost", "stop_loss", "risk_amount",
                         "risk_per_share", "position_pct"},
               !.shares = shares,
               !.cost = cost,
               !.stop_loss = stop_loss,
               !.risk_amount = risk_amount,
               !.risk_per_share = risk_per_share,
               !.position_pct = IF equity > 0 THEN PositionPct(cost, equity) ELSE 0]

NoCall == [op |-> "", action |-> "", stop_loss |-> 0, entry_price |-> 0]

\* a store no decision has been asked on: no rows for the symbol, no snapshot
EmptyStore ==
    [market |-> [has |-> FALSE, price |-> 0, atr |-> 0],
     portfolio |-> [has |-> FALSE, total_equity |-> 0, cash_balance |-> 0],
     position |-> [has |-> FALSE, quantity |-> 0, current_value |-> 0],
     sector |-> [sector |-> "Unknown", total |-> 0]]

RiskIdle ==
    /\ call = NoCall
    /\ result = NoResult
    /\ risk_decisions = <<>>

\* -------------------------------------------------------- the retry wrapper
\* a thread that has not called yet
NoCaller ==
    [pc |-> "idle", max_retries |-> 0, base_delay |-> 0, attempt |-> 0, timer |-> 0,
     invocations |-> 0, sleeps |-> <<>>, last_error |-> "", result |-> ""]

\* gemini_client as imported: the lock is free and _last_call_time = 0.0 lies
\* further back than any interval
RetryIdle ==
    /\ rateLock = 0
    /\ lastCallAge = MIN_CALL_INTERVAL
    /\ lastStartAge = MIN_CALL_INTERVAL
    /\ caller = [c \in Callers |-> NoCaller]

\* if max_retries is None: max_retries = _MAX_RETRIES
MaxRetriesArg(a) == IF a.max_retries = <<>> THEN MAX_RETRIES ELSE a.max_retries[1]

\* if base_delay is None: base_delay = _RETRY_BASE_DELAY
BaseDelayArg(a) == IF a.base_delay = <<>> THEN RETRY_BASE_DELAY ELSE a.base_delay[1]

\* variant: every error is taken for a rate-limit error
IsRateLimitErrorAlways(e) == TRUE

\* _is_rate_limit_error: by the type's name, else by the markers in the text
IsRateLimitError(e) ==
    \/ e.type \in {"ResourceExhausted", "RateLimitError"}
    \/ e.text \cap {"429", "resource exhausted", "rate limit"} # {}

ErrorName(e) == IF e.text = {} THEN e.type ELSE "ValueError: 429"

RECURSIVE Pow2(_)
Pow2(k) == IF k = 0 THEN 1 ELSE 2 * Pow2(k - 1)

\* variant: the delay grows by the base each time instead of doubling
BackoffDelayLinear(base_delay, attempt) == base_delay * (attempt + 1)

\* wait_time = base_delay * (2 ** attempt)
BackoffDelay(base_delay, attempt) == base_delay * Pow2(attempt)

\* wait_time = _MIN_CALL_INTERVAL - elapsed when elapsed < _MIN_CALL_INTERVAL
RateLimitWait(elapsed) ==
    IF elapsed < MIN_CALL_INTERVAL THEN MIN_CALL_INTERVAL - elapsed ELSE 0

\* ---------------------------------------------------- the strategy planner
\* variant: _gather_context uses the row whatever its age
GatherContextWithoutTtl(row, quantity) ==
    [price |-> IF row.has THEN row.price ELSE 0,
     sma_50 |-> IF row.has THEN row.sma_50 ELSE 0,
     is_volatile |-> row.has /\ row.is_volatile,
     market_data_stale |-> FALSE,
     quantity |-> quantity]

\* _gather_context: a row older than the TTL is flagged stale and its data dropped
GatherContext(row, quantity) ==
    LET stale == row.has /\ row.age > MARKET_DATA_TTL
        fresh == row.has /\ ~stale
    IN [price |-> IF fresh THEN row.price ELSE 0,
        sma_50 |-> IF fresh THEN row.sma_50 ELSE 0,
        is_volatile |-> fresh /\ row.is_volatile,
        market_data_stale |-> stale,
        quantity |-> quantity]

NoRec ==
    [some |-> FALSE, raised |-> FALSE, symbol |-> 0, action |-> "", confidence |-> 0,
     stop_loss |-> 0, source |-> "", price |-> 0, quantity |-> 0, age |-> 0, read_at |-> 0]

\* _fallback_recommendation: the action of the rule-based recommendation
FallbackAction(context) ==
    LET default == IF context.quantity > 0 THEN "HOLD" ELSE "SKIP"
    IN IF context.price # 0 /\ context.sma_50 # 0
       THEN IF context.price > context.sma_50 /\ context.quantity = 0 THEN "BUY"
            ELSE IF context.price < context.sma_50 /\ context.quantity > 0 THEN "SELL"
            ELSE default
       ELSE IF context.price > 0 /\ context.quantity = 0 /\ ~context.is_volatile THEN "BUY"
       ELSE default

\* _fallback_recommendation: 0.4 on the screened-stock branch, else 0.3
FallbackConfidence(context) ==
    IF ~(context.price # 0 /\ context.sma_50 # 0)
       /\ context.price > 0 /\ context.quantity = 0 /\ ~context.is_volatile
    THEN SCREENED_CONFIDENCE ELSE FALLBACK_CONFIDENCE

FallbackRecommendation(symbol, context) ==
    [NoRec EXCEPT !.some = TRUE, !.symbol = symbol, !.action = FallbackAction(context),
                  !.confidence = FallbackConfidence(context), !.source = "fallback",
                  !.price = context.price, !.quantity = context.quantity]

\* generate_recommendation: None on stale or missing price data; the fallback
\* without a model, after a None from call_with_retry or a text without JSON;
\* result['symbol'] = symbol raises on a parsed value that is not an object
GenerateRecommendation(symbol, row, quantity, ai) ==
    LET context == GatherContext(row, quantity)
    IN IF context.market_data_stale THEN NoRec
       ELSE IF context.price = 0 THEN NoRec
       ELSE IF ai.kind = "object"
       THEN [NoRec EXCEPT !.some = TRUE, !.symbol = symbol, !.action = ai.action,
                          !.confidence = ai.confidence, !.stop_loss = ai.stop_loss,
                          !.source = "ai", !.price = context.price,
                          !.quantity = context.quantity]
       ELSE IF ai.kind = "not_object" THEN [NoRec EXCEPT !.raised = TRUE]
       ELSE FallbackRecommendation(symbol, context)

\* generate_recommendation: what the call did on its way: whether it called
\* the AI (call_with_retry), built the fallback recommendation, and wrote a
\* strategy_recommendations row (_write_to_db, which skips actions the schema
\* does not allow; the fallback is not written)
PlannerTrace(row, quantity, ai) ==
    LET context == GatherContext(row, quantity)
        proceeds == ~context.market_data_stale /\ context.price # 0
        called == proceeds /\ ai.kind # "unconfigured"
    IN [ai_called |-> called,
        fallback |-> proceeds /\ ai.kind \in {"unconfigured", "None", "unparsable"},
        written |-> called /\ ai.kind = "object" /\ ai.action \in {"BUY", "SELL", "HOLD"}]

\* the last call of generate_recommendation: the price and the age of the row
\* it read (0: no row), what the AI step gave or would have given, what the
\* call did and what it returned
NoPlan ==
    [age |-> 0, price |-> 0, ai |-> "", rec |-> NoRec,
     trace |-> [ai_called |-> FALSE, fallback |-> FALSE, written |-> FALSE]]

\* no market or review run has begun
RunIdle ==
    /\ mkt = [pc |-> "idle", mode |-> "", i |-> 0, v |-> 0, elapsed |-> 0]
    /\ planned = NoPlan
    /\ recommendations = <<>>
    /\ validations = <<>>
    /\ approved_trades = <<>>
    /\ batches = <<>>

\* set(a_list): the members of a list
Range(q) == {q[k] : k \in 1..Len(q)}

\* variant: the except branch drops what was gathered before the screener ran
MonitoringSymbolsDroppedOnError(watchlist, holdings, screen) ==
    IF screen.kind = "raises" THEN {}
    ELSE Range(watchlist) \cup Range(holdings) \cup Range(screen.screened)

\* TradingOrchestrator._get_monitoring_symbols: the symbols of the watchlist
\* and of the holdings, and the screened ones when the screener returned
MonitoringSymbols(watchlist, holdings, screen) ==
    LET symbols == Range(watchlist) \cup Range(holdings)
    IN IF screen.kind = "returns" THEN symbols \cup Range(screen.screened) ELSE symbols

\* list(symbols): the members of the set, each once, in an order the set picks
ListsOf(S) ==
    {q \in [1..Cardinality(S) -> S] : \A x \in S : \E k \in 1..Cardinality(S) : q[k] = x}

\* _get_monitoring_symbols has not been called
NoMonitoring ==
    [pc |-> "idle", watchlist |-> <<>>, holdings |-> <<>>,
     screen |-> [kind |-> "disabled", screened |-> <<>>], symbols |-> <<>>]

MarketIdle ==
    /\ RunIdle
    /\ monitoring = NoMonitoring

\* ------------------------------------------------------------------ Init
LedgerInit ==
    /\ runs = <<>>
    /\ dbLock = 0
    /\ req = [r \in Req |-> NewReq]
    /\ proc = [p \in ProcIds |-> IdleProc]
    /\ batch = {}
    /\ nextAttempt = 0

\* the ledger's specification starts with a risk controller nobody has called
Init ==
    /\ LedgerInit
    /\ store = EmptyStore
    /\ RiskIdle
    /\ RetryIdle
    /\ MarketIdle

\* the risk controller's specification: any store of the input sets
RiskInit ==
    /\ LedgerInit
    /\ store \in StoreInputs
    /\ RiskIdle
    /\ RetryIdle
    /\ MarketIdle

\* the retry wrapper's specification: the module as imported, no caller yet
RetryInit ==
    /\ LedgerInit
    /\ store = EmptyStore
    /\ RiskIdle
    /\ RetryIdle
    /\ MarketIdle

\* ------------------------------------------------------------- observers
\* no row is pending or running (stated on the raw statuses)
Idle(rs) == \A j \in RowIds(rs) : rs[j].status \notin {"pending", "running"}

\* the /run attempts that have arrived and are not answered yet
InFlight(rq) == {r \in Req : rq[r].kind = "run" /\ rq[r].pc \in {"begin", "tx"}}

\* a job admitted by POST /orchestrator/run is marked failed in this step
RunJobFails ==
    \E j \in RowIds(runs) :
        /\ runs[j].triggered_by = "manual" /\ runs[j].mode \in ValidModes
        /\ runs[j].status # "failed" /\ runs'[j].status = "failed"

\* batch: while the ledger is idle it collects the /run attempts in flight; the
\* insert of one of them closes it, an insert by /agent/evaluate or a job that
\* ends starts a new one.
\* nextAttempt: set to -1 when a job of /orchestrator/run is marked failed with
\* no attempt in flight, then to the first attempt that arrives; tracking stops
\* (0) when a second attempt arrives before the first is answered, so that the
\* tracked attempt is the next one without any doubt.
Observe ==
    /\ batch' =
          IF Idle(runs')
          THEN (IF Idle(runs) THEN batch ELSE {}) \cup InFlight(req')
          ELSE IF Idle(runs) /\ runs'[Len(runs')].mode = "evaluate" THEN {}
          ELSE batch
    /\ nextAttempt' =
          LET arrived == InFlight(req') \ InFlight(req) IN
          IF RunJobFails THEN (IF InFlight(req') = {} THEN -1 ELSE 0)
          ELSE IF arrived = {} THEN nextAttempt
          ELSE IF nextAttempt = -1 THEN CHOOSE r \in arrived : TRUE
          ELSE IF nextAttempt > 0 /\ req[nextAttempt].pc # "done" THEN 0
          ELSE nextAttempt

\* ------------------------------------- POST /orchestrator/run, /agent/evaluate
\* the request arrives; run_orchestrator validates the mode first (400)
Arrive(r, kind, mode) ==
    /\ req[r].pc = "new"
    /\ \A q \in Req : q < r => req[q].pc # "new"
    /\ kind = "evaluate" => mode = "evaluate"
    /\ kind = "run" => mode \in ReqModeInputs
    /\ Room(1 + (IF kind = "run" THEN PostRow(mode) ELSE 0))
    /\ req' = [req EXCEPT ![r] =
          IF kind = "run" /\ mode \notin ValidModes
          THEN [@ EXCEPT !.pc = "done", !.kind = kind, !.outcome = "400"]
          ELSE [@ EXCEPT !.pc = "begin", !.kind = kind, !.mode = mode]]
    /\ UNCHANGED <<runs, dbLock, proc>>
    /\ Observe
    /\ UNCHANGED riskVars
    /\ UNCHANGED retryVars /\ UNCHANGED marketVars

\* BEGIN IMMEDIATE obtains the write lock
BeginImmediate(r) ==
    /\ req[r].pc = "begin"
    /\ dbLock = 0
    /\ dbLock' = r
    /\ req' = [req EXCEPT ![r].pc = "tx"]
    /\ UNCHANGED <<runs, proc>>
    /\ Observe
    /\ UNCHANGED riskVars
    /\ UNCHANGED retryVars /\ UNCHANGED marketVars

\* BEGIN IMMEDIATE gives up on a held lock ("database is locked"): run_orchestrator
\* answers 503; in run_evaluation the handler list names sqlite3, which agent.py
\* never imports, so the NameError surfaces as a 500
BeginBusy(r) ==
    /\ req[r].pc = "begin"
    /\ dbLock # 0
    /\ req' = [req EXCEPT ![r].pc = "done", ![r].mode = "",
                          ![r].outcome = IF req[r].kind = "run" THEN "503" ELSE "500"]
    /\ UNCHANGED <<runs, dbLock, proc>>
    /\ Observe
    /\ UNCHANGED riskVars
    /\ UNCHANGED retryVars /\ UNCHANGED marketVars

\* the thread run_orchestrator / run_evaluation starts for the new job
NewThread(kind, mode) ==
    IF kind = "run"
    THEN [pc |-> "b_start", kind |-> "api", mode |-> mode, err |-> "", res |-> ""]
    ELSE [pc |-> "e_start", kind |-> "eval", mode |-> "evaluate", err |-> "", res |-> ""]

\* inside the transaction: the count, then rollback and Conflict, or insert and
\* commit; after a commit the background thread is started and the job id returned.
\* In run_evaluation the Conflict never leaves the handler: matching it against
\* `except sqlite3.IntegrityError` raises NameError (agent.py imports no sqlite3),
\* which the client sees as a 500
CheckAndInsert(r) ==
    /\ req[r].pc = "tx"
    /\ dbLock = r
    /\ LET c == IF req[r].kind = "run" THEN ActiveCount(runs) ELSE EvalActiveCount(runs)
       IN IF c > 0
          THEN /\ runs' = RollbackRows(runs, req[r].mode)
               /\ req' = [req EXCEPT ![r].pc = "done", ![r].mode = "",
                              ![r].outcome = IF req[r].kind = "run" THEN "409" ELSE "500"]
               /\ UNCHANGED proc
          ELSE /\ runs' = InsertPending(runs, req[r].mode)
               /\ req' = [req EXCEPT ![r].pc = "done", ![r].mode = "", ![r].outcome = "ok",
                                     ![r].job_id = Len(runs) + 1]
               /\ proc' = [proc EXCEPT ![Len(runs) + 1] = NewThread(req[r].kind, req[r].mode)]
    /\ dbLock' = 0
    /\ Observe
    /\ UNCHANGED riskVars
    /\ UNCHANGED retryVars /\ UNCHANGED marketVars

\* ------------------------------------------------- _run_orchestrator(job_id, mode)
\* "Starting" is logged, the row marked running, "Initializing" logged and
\* TradingOrchestrator() built; when that raises the except block takes over,
\* else "Running" is logged and orchestrator.run(mode) entered
BgStart(j) ==
    /\ proc[j].pc = "b_start" /\ dbLock = 0
    /\ LET rs == AppendLog(MarkRunning(AppendLog(runs, j, "Starting"), j), j, "Initializing")
       IN \/ /\ runs' = AppendLog(rs, j, "Running")
             /\ proc' = [proc EXCEPT ![j].pc = PipeEntry("api", proc[j].mode)]
          \/ \E e \in Errs :
             /\ runs' = rs
             /\ proc' = [proc EXCEPT ![j].pc = "b_err", ![j].err = e]
    /\ UNCHANGED <<dbLock, req>>
    /\ Observe
    /\ UNCHANGED riskVars
    /\ UNCHANGED retryVars /\ UNCHANGED marketVars

\* run() returned: the success line is logged and the row marked completed
BgOk(j) ==
    /\ proc[j].pc = "b_ok" /\ dbLock = 0
    /\ runs' = MarkCompleted(AppendLog(runs, j, "Completed"), j)
    /\ proc' = [proc EXCEPT ![j] = Ended(@.kind)]
    /\ UNCHANGED <<dbLock, req>>
    /\ Observe
    /\ UNCHANGED riskVars
    /\ UNCHANGED retryVars /\ UNCHANGED marketVars

\* except Exception: the error line is logged and the row marked failed
BgErr(j) ==
    /\ proc[j].pc = "b_err" /\ dbLock = 0
    /\ runs' = MarkFailed(AppendLog(runs, j, "Error"), j, proc[j].err)
    /\ proc' = [proc EXCEPT ![j] = Ended(@.kind)]
    /\ UNCHANGED <<dbLock, req>>
    /\ Observe
    /\ UNCHANGED riskVars
    /\ UNCHANGED retryVars /\ UNCHANGED marketVars

\* ------------------------------------------- _run_evaluation_background(job_id, ...)
EvStart(j) ==
    /\ proc[j].pc = "e_start" /\ dbLock = 0
    /\ runs' = MarkRunning(runs, j)
    /\ proc' = [proc EXCEPT ![j].pc = "e_eval"]
    /\ UNCHANGED <<dbLock, req>>
    /\ Observe
    /\ UNCHANGED riskVars
    /\ UNCHANGED retryVars /\ UNCHANGED marketVars

\* evaluate_recommendations returns a result, whose status (default completed)
\* and summary are written, or it raises and the row is marked failed
EvFinish(j) ==
    /\ proc[j].pc = "e_eval" /\ dbLock = 0
    /\ \/ \E s \in EvalResults : runs' = MarkEvaluated(runs, j, s, "summary")
       \/ \E e \in Errs : runs' = MarkFailed(runs, j, e)
    /\ proc' = [proc EXCEPT ![j] = Ended(@.kind)]
    /\ UNCHANGED <<dbLock, req>>
    /\ Observe
    /\ UNCHANGED riskVars
    /\ UNCHANGED retryVars /\ UNCHANGED marketVars

\* ------------------------------------------------ TradingOrchestrator.run(mode)
\* variant: a guard whose ledger query raised reports 'already run today'
HasRunTodayFailClosed(rs, mode, ok) ==
    IF ok THEN HasRunToday(rs, mode) ELSE TRUE

\* TradingOrchestrator._has_run_today as its caller sees it: the answer of the
\* ledger query, or False when the query raised (ok is FALSE)
HasRunTodayOrFalse(rs, mode, ok) ==
    IF ok THEN HasRunToday(rs, mode) ELSE FALSE

\* run_postmarket's guard: skip when a completed postmarket row is dated today;
\* run() then returns to its caller at once (res notes that the run was skipped).
\* The ledger query answers or raises; res notes a guard that failed open. A
\* guard that fails open on a ledger holding today's row needs room for the
\* row its run will log.
PipeGuard(p) ==
    /\ proc[p].pc = "p_guard"
    /\ \E ok \in BOOLEAN :
          /\ (~ok /\ HasRunToday(runs, "postmarket")) => Room(1)
          /\ proc' = [proc EXCEPT ![p] =
                IF HasRunTodayOrFalse(runs, "postmarket", ok)
                THEN SetPc([@ EXCEPT !.res = "skipped"], AfterReturn(@.kind), "")
                ELSE [@ EXCEPT !.pc = "p_body",
                               !.res = IF ok THEN @ ELSE "fail_open"]]
    /\ UNCHANGED <<runs, dbLock, req>>
    /\ Observe
    /\ UNCHANGED riskVars
    /\ UNCHANGED retryVars /\ UNCHANGED marketVars

\* the routine's work returns or raises; run_postmarket logs its row in the
\* finally block either way (_log_run), then returns or re-raises
PipeBody(p) ==
    /\ proc[p].pc = "p_body"
    /\ \E e \in Errs \cup {""} :
          /\ proc' = [proc EXCEPT ![p] =
                SetPc(@, IF e = "" THEN AfterReturn(@.kind) ELSE AfterRaise(@.kind), e)]
          /\ IF proc[p].mode = "postmarket"
             THEN /\ dbLock = 0
                  /\ runs' = LogRunRow(runs, "postmarket",
                                       IF e = "" THEN "completed" ELSE "failed", e)
             ELSE UNCHANGED runs
    /\ UNCHANGED <<dbLock, req>>
    /\ Observe
    /\ UNCHANGED riskVars
    /\ UNCHANGED retryVars /\ UNCHANGED marketVars

\* ------------------------------------------------------ scripts/run_scheduled.py
\* main(): a closed market logs a skipped row and exits, else the run starts
SchedMain(mode, open) ==
    /\ proc[DirectId].pc = "idle"
    /\ Room(1 + PostRow(mode))
    /\ IF open
       THEN /\ proc' = [proc EXCEPT ![DirectId] =
                  [pc |-> PipeEntry("sched", mode), kind |-> "sched", mode |-> mode,
                   err |-> "", res |-> ""]]
            /\ UNCHANGED runs
       ELSE /\ dbLock = 0
            /\ runs' = SchedLogRow(runs, mode, "skipped", "Market closed")
            /\ proc' = [proc EXCEPT ![DirectId] = Ended("sched")]
    /\ UNCHANGED <<dbLock, req>>
    /\ Observe
    /\ UNCHANGED riskVars
    /\ UNCHANGED retryVars /\ UNCHANGED marketVars

\* log_run(mode, "completed") after run() returned
SchedLog ==
    /\ proc[DirectId].pc = "s_log" /\ dbLock = 0
    /\ runs' = SchedLogRow(runs, proc[DirectId].mode, "completed", "")
    /\ proc' = [proc EXCEPT ![DirectId] = Ended("sched")]
    /\ UNCHANGED <<dbLock, req>>
    /\ Observe
    /\ UNCHANGED riskVars
    /\ UNCHANGED retryVars /\ UNCHANGED marketVars

\* log_run(mode, "failed", str(e)) after run() raised
SchedLogFail ==
    /\ proc[DirectId].pc = "s_logfail" /\ dbLock = 0
    /\ runs' = SchedLogRow(runs, proc[DirectId].mode, "failed", proc[DirectId].err)
    /\ proc' = [proc EXCEPT ![DirectId] = Ended("sched")]
    /\ UNCHANGED <<dbLock, req>>
    /\ Observe
    /\ UNCHANGED riskVars
    /\ UNCHANGED retryVars /\ UNCHANGED marketVars

\* ------------------------------------------------- main_orchestrator.main (CLI)
CliMain(mode) ==
    /\ proc[DirectId].pc = "idle"
    /\ Room(PostRow(mode))
    /\ proc' = [proc EXCEPT ![DirectId] =
          SetPc([pc |-> "idle", kind |-> "cli", mode |-> mode, err |-> "", res |-> ""],
                PipeEntry("cli", mode), "")]
    /\ UNCHANGED <<runs, dbLock, req>>
    /\ Observe
    /\ UNCHANGED riskVars
    /\ UNCHANGED retryVars /\ UNCHANGED marketVars

\* variant: a HOLD is answered like an action the controller does not know
HoldResultInvalidAction == Veto("Invalid action")

\* return {'approved': True, 'reason': 'No action required'}
HoldResult ==
    [NoResult EXCEPT !.keys = {"approved", "reason"}, !.approved = TRUE,
                     !.reason = "No action required"]

\* variant: validate_trade books an approved BUY into the holdings
ValidateTradeBooksApproval(rec) ==
    /\ Len(risk_decisions) < MaxDecisions
    /\ call' = [op |-> "validate_trade", action |-> rec.action,
                stop_loss |-> rec.stop_loss, entry_price |-> 0]
    /\ IF rec.action = "HOLD"
       THEN /\ result' = HoldResult
            /\ UNCHANGED <<risk_decisions, store>>
       ELSE LET context == GetRiskContext(store)
                res == IF rec.action = "BUY" THEN ValidateBuy(rec, context)
                       ELSE IF rec.action = "SELL" THEN ValidateSell(rec, context)
                       ELSE Veto("Invalid action")
            IN /\ result' = res
               /\ risk_decisions' = LogDecision(risk_decisions, rec, res)
               /\ store' = IF res.approved /\ rec.action = "BUY"
                           THEN [store EXCEPT !.position.has = TRUE,
                                              !.position.quantity = @ + res.approved_shares * Mils]
                           ELSE store
    /\ UNCHANGED ledgerVars
    /\ UNCHANGED retryVars /\ UNCHANGED marketVars

\* ------------------------------------------- RiskController.validate_trade
\* HOLD returns at once, before the context is read and without an audit row;
\* every other action reads the context, is decided and logged
ValidateTrade(rec) ==
    /\ Len(risk_decisions) < MaxDecisions
    /\ call' = [op |-> "validate_trade", action |-> rec.action,
                stop_loss |-> rec.stop_loss, entry_price |-> 0]
    /\ IF rec.action = "HOLD"
       THEN /\ result' = HoldResult
            /\ UNCHANGED risk_decisions
       ELSE LET context == GetRiskContext(store)
                res == IF rec.action = "BUY" THEN ValidateBuy(rec, context)
                       ELSE IF rec.action = "SELL" THEN ValidateSell(rec, context)
                       ELSE Veto("Invalid action")
            IN /\ result' = res
               /\ risk_decisions' = LogDecision(risk_decisions, rec, res)
    /\ UNCHANGED store
    /\ UNCHANGED ledgerVars
    /\ UNCHANGED retryVars /\ UNCHANGED marketVars

\* ---------------------------------- RiskController.calculate_position_size
CalculatePositionSize(entry_price, stop_loss_price) ==
    /\ call' = [op |-> "calculate_position_size", action |-> "",
                stop_loss |-> stop_loss_price, entry_price |-> entry_price]
    /\ result' = PositionSize(entry_price, stop_loss_price, GetRiskContext(store))
    /\ UNCHANGED <<store, risk_decisions>>
    /\ UNCHANGED ledgerVars
    /\ UNCHANGED retryVars /\ UNCHANGED marketVars

\* ------------------------------------------ gemini_client.call_with_retry
\* a thread enters call_with_retry: the defaults are resolved, attempt = 0
Call(c, a) ==
    /\ caller[c].pc = "idle"
    /\ caller' = [caller EXCEPT ![c] =
           [NoCaller EXCEPT !.pc = "gate",
                            !.max_retries = MaxRetriesArg(a),
                            !.base_delay = BaseDelayArg(a)]]
    /\ UNCHANGED <<rateLock, lastCallAge, lastStartAge>>
    /\ UNCHANGED ledgerVars /\ UNCHANGED riskVars /\ UNCHANGED marketVars

\* _wait_for_rate_limit: with _rate_lock, elapsed is measured and the sleep begins
GateAcquire(c) ==
    /\ caller[c].pc = "gate"
    /\ rateLock = 0
    /\ rateLock' = c
    /\ caller' = [caller EXCEPT ![c].pc = "gate_sleep",
                                ![c].timer = RateLimitWait(lastCallAge)]
    /\ UNCHANGED <<lastCallAge, lastStartAge>>
    /\ UNCHANGED ledgerVars /\ UNCHANGED riskVars /\ UNCHANGED marketVars

\* variant: the lock is not released when _wait_for_rate_limit returns; the
\* thread holds it while call_fn runs
GateRecordKeepsLock(c) ==
    /\ caller[c].pc = "gate_sleep"
    /\ caller[c].timer = 0
    /\ lastCallAge' = 0
    /\ caller' = [caller EXCEPT ![c].pc = "invoke"]
    /\ UNCHANGED <<rateLock, lastStartAge>>
    /\ UNCHANGED ledgerVars /\ UNCHANGED riskVars /\ UNCHANGED marketVars

\* _wait_for_rate_limit: the sleep is over, _last_call_time = time.time(), the
\* lock is released and the function returns to the loop
GateRecord(c) ==
    /\ caller[c].pc = "gate_sleep"
    /\ caller[c].timer = 0
    /\ lastCallAge' = 0
    /\ rateLock' = 0
    /\ caller' = [caller EXCEPT ![c].pc = "invoke"]
    /\ UNCHANGED lastStartAge
    /\ UNCHANGED ledgerVars /\ UNCHANGED riskVars /\ UNCHANGED marketVars

\* what the loop does with an exception of call_fn at this attempt
OnError(r, e) ==
    IF ~IsRateLimitError(e)
    THEN [r EXCEPT !.pc = "done", !.result = "None", !.last_error = ErrorName(e)]
    ELSE IF r.attempt < r.max_retries
    THEN [r EXCEPT !.pc = "backoff",
                   !.timer = BackoffDelay(r.base_delay, r.attempt),
                   !.sleeps = Append(r.sleeps, BackoffDelay(r.base_delay, r.attempt)),
                   !.last_error = ErrorName(e)]
    ELSE [r EXCEPT !.pc = "done", !.result = "None", !.last_error = ErrorName(e)]

\* return call_fn(): the thread enters the wrapped function
Invoke(c) ==
    /\ caller[c].pc = "invoke"
    /\ lastStartAge' = 0
    /\ caller' = [caller EXCEPT ![c].pc = "calling", ![c].invocations = @ + 1]
    /\ UNCHANGED <<rateLock, lastCallAge>>
    /\ UNCHANGED ledgerVars /\ UNCHANGED riskVars /\ UNCHANGED marketVars

\* call_fn(), after whatever time it takes, returns a response or raises
CallFnEnds(c, outcome) ==
    /\ caller[c].pc = "calling"
    /\ caller' = [caller EXCEPT ![c] =
           IF outcome.ok
           THEN [@ EXCEPT !.pc = "done", !.result = "response"]
           ELSE OnError(@, outcome.error)]
    /\ UNCHANGED <<rateLock, lastCallAge, lastStartAge>>
    /\ UNCHANGED ledgerVars /\ UNCHANGED riskVars /\ UNCHANGED marketVars

\* time.sleep(wait_time) is over: the loop goes to the next attempt; last_error
\* is not read again before the next exception overwrites it
BackoffDone(c) ==
    /\ caller[c].pc = "backoff"
    /\ caller[c].timer = 0
    /\ caller' = [caller EXCEPT ![c].pc = "gate", ![c].attempt = @ + 1,
                                ![c].last_error = ""]
    /\ UNCHANGED <<rateLock, lastCallAge, lastStartAge>>
    /\ UNCHANGED ledgerVars /\ UNCHANGED riskVars /\ UNCHANGED marketVars

\* call_with_retry has returned; the thread may call again
Return(c) ==
    /\ caller[c].pc = "done"
    /\ caller' = [caller EXCEPT ![c] = NoCaller]
    /\ UNCHANGED <<rateLock, lastCallAge, lastStartAge>>
    /\ UNCHANGED ledgerVars /\ UNCHANGED riskVars /\ UNCHANGED marketVars

\* one second passes: time.time() moves on and every running sleep gets shorter
Age(a) == IF a < MIN_CALL_INTERVAL THEN a + 1 ELSE a

Tick ==
    /\ lastCallAge' = Age(lastCallAge)
    /\ lastStartAge' = Age(lastStartAge)
    /\ caller' = [c \in Callers |->
           [caller[c] EXCEPT !.timer = IF @ > 0 THEN @ - 1 ELSE 0]]
    /\ UNCHANGED rateLock
    /\ UNCHANGED ledgerVars /\ UNCHANGED riskVars /\ UNCHANGED marketVars

OutcomeInputs ==
    {[ok |-> TRUE, error |-> [type |-> "", text |-> {}]]} \cup
    {[ok |-> FALSE, error |-> e] : e \in ErrorInputs}

\* ------------------------- run_market_hours / run_portfolio_review
\* variant: an action that is neither BUY nor SELL is answered like a HOLD
ValidateResultUnknownAsHold(rec, s) ==
    IF rec.action = "BUY" THEN ValidateBuy(rec, GetRiskContext(s))
    ELSE IF rec.action = "SELL" THEN ValidateSell(rec, GetRiskContext(s))
    ELSE HoldResult

\* validate_trade's answer to rec on store s
ValidateResult(rec, s) ==
    IF rec.action = "HOLD" THEN HoldResult
    ELSE IF rec.action = "BUY" THEN ValidateBuy(rec, GetRiskContext(s))
    ELSE IF rec.action = "SELL" THEN ValidateSell(rec, GetRiskContext(s))
    ELSE Veto("Invalid action")

\* the stores the risk controller can find for a recommendation: the price and
\* the holding are the ones the planner read, the cash is plentiful or short,
\* a held symbol's sector holds more than the symbol alone
StoresFor(rec) ==
    {[market |-> [has |-> TRUE, price |-> rec.price, atr |-> 4],
      portfolio |-> [has |-> TRUE, total_equity |-> 10000, cash_balance |-> cash],
      position |-> [has |-> rec.quantity > 0, quantity |-> rec.quantity,
                    current_value |-> (rec.quantity * rec.price) \div Mils],
      sector |-> [sector |-> "Technology",
                  total |-> IF rec.quantity > 0 THEN 2600 ELSE 0]] : cash \in {120, 5000}}

RunStoreInputs ==
    UNION {StoresFor([price |-> 100, quantity |-> q]) : q \in QuantityInputs}

\* run(mode) enters the routine of the mode (one run is followed)
MarketStart(mode) ==
    /\ mkt.pc = "idle"
    /\ mkt' = [mkt EXCEPT !.pc = "generate", !.mode = mode]
    /\ UNCHANGED <<planned, recommendations, validations, approved_trades, batches, monitoring>>
    /\ UNCHANGED ledgerVars /\ UNCHANGED riskVars /\ UNCHANGED retryVars

\* variant: every recommendation that is not None is handed on
KeptAny(rec) == rec.some

\* `rec and rec.get('action') != 'HOLD'`, the review's `actionable` filter
Kept(rec) == rec.some /\ rec.action # "HOLD"

\* one turn of the recommendation loop: the next symbol's recommendation is
\* kept unless it is None or a HOLD; an exception leaves the routine. The
\* review takes its symbols from the holdings with quantity > 0
Generate(row, quantity, ai) ==
    /\ mkt.pc = "generate"
    /\ mkt.i < NSymbols
    /\ mkt.mode = "review" => quantity > 0
    /\ LET ret == GenerateRecommendation(mkt.i + 1, row, quantity, ai)
           rec == IF ret.some THEN [ret EXCEPT !.age = row.age, !.read_at = mkt.elapsed]
                  ELSE ret
       IN /\ planned' = [age |-> row.age, price |-> IF row.has THEN row.price ELSE 0,
                         ai |-> ai.kind, rec |-> rec,
                         trace |-> PlannerTrace(row, quantity, ai)]
          /\ IF rec.raised
             THEN /\ mkt' = [mkt EXCEPT !.pc = "raised"]
                  /\ UNCHANGED recommendations
             ELSE /\ mkt' = [mkt EXCEPT !.i = @ + 1,
                                        !.pc = IF mkt.i + 1 = NSymbols
                                               THEN "validate" ELSE "generate"]
                  /\ recommendations' = IF Kept(rec)
                                        THEN Append(recommendations, rec)
                                        ELSE recommendations
    /\ UNCHANGED <<validations, approved_trades, batches, monitoring>>
    /\ UNCHANGED ledgerVars /\ UNCHANGED riskVars /\ UNCHANGED retryVars

\* one turn of the validation loop: validate_trade decides on the store as it
\* is now and logs the decision; an approval joins approved_trades
Validate(s) ==
    /\ mkt.pc = "validate"
    /\ mkt.v < Len(recommendations)
    /\ LET rec == recommendations[mkt.v + 1]
           res == ValidateResult(rec, s)
       IN /\ s \in StoresFor(rec)
          /\ s \in StoreInputs
          /\ validations' = Append(validations,
                [symbol |-> rec.symbol, action |-> rec.action,
                 approved |-> res.approved, reason |-> res.reason,
                 age |-> rec.age + (mkt.elapsed - rec.read_at)])
          /\ approved_trades' = IF res.approved
                                THEN Append(approved_trades,
                                            [symbol |-> rec.symbol, action |-> rec.action,
                                             approved_shares |-> res.approved_shares])
                                ELSE approved_trades
          /\ risk_decisions' = IF rec.action = "HOLD" THEN risk_decisions
                               ELSE LogDecision(risk_decisions, rec, res)
    /\ mkt' = [mkt EXCEPT !.v = @ + 1]
    /\ UNCHANGED <<planned, recommendations, batches, monitoring>>
    /\ UNCHANGED <<store, call, result>>
    /\ UNCHANGED ledgerVars /\ UNCHANGED retryVars

\* variant: one notification is sent for each approved trade
NotifyPerTrade ==
    /\ mkt.pc = "validate"
    /\ mkt.v = Len(recommendations)
    /\ batches' = batches \o [n \in 1..Len(approved_trades) |-> <<approved_trades[n]>>]
    /\ mkt' = [mkt EXCEPT !.pc = "done"]
    /\ UNCHANGED <<planned, recommendations, validations, approved_trades, monitoring>>
    /\ UNCHANGED ledgerVars /\ UNCHANGED riskVars /\ UNCHANGED retryVars

\* after the loops: send_batch_alerts(approved_trades) if there is an approval
Notify ==
    /\ mkt.pc = "validate"
    /\ mkt.v = Len(recommendations)
    /\ batches' = IF approved_trades # <<>> THEN Append(batches, approved_trades)
                  ELSE batches
    /\ mkt' = [mkt EXCEPT !.pc = "done"]
    /\ UNCHANGED <<planned, recommendations, validations, approved_trades, monitoring>>
    /\ UNCHANGED ledgerVars /\ UNCHANGED riskVars /\ UNCHANGED retryVars

\* time passes while the routine runs
MarketTick ==
    /\ mkt.pc \in {"generate", "validate"}
    /\ mkt.elapsed < MaxElapsed
    /\ mkt' = [mkt EXCEPT !.elapsed = @ + 1]
    /\ UNCHANGED <<planned, recommendations, validations, approved_trades, batches, monitoring>>
    /\ UNCHANGED ledgerVars /\ UNCHANGED riskVars /\ UNCHANGED retryVars

\* ------------------------------------------------------------------ Next
Next ==
    \/ \E r \in Req : \E m \in ReqModeInputs : Arrive(r, "run", m)
    \/ \E r \in Req : Arrive(r, "evaluate", "evaluate")
    \/ \E r \in Req : BeginImmediate(r)
    \/ \E r \in Req : BeginBusy(r)
    \/ \E r \in Req : CheckAndInsert(r)
    \/ \E j \in JobIds : BgStart(j)
    \/ \E j \in JobIds : BgOk(j)
    \/ \E j \in JobIds : BgErr(j)
    \/ \E j \in JobIds : EvStart(j)
    \/ \E j \in JobIds : EvFinish(j)
    \/ \E p \in ProcIds : PipeGuard(p)
    \/ \E p \in ProcIds : PipeBody(p)
    \/ \E m \in SchedModeInputs : \E open \in BOOLEAN : SchedMain(m, open)
    \/ SchedLog
    \/ SchedLogFail
    \/ \E m \in CliModeInputs : CliMain(m)

Spec == Init /\ [][Next]_vars

\* the requests in their handler and the processes that have not ended
Busy ==
    Cardinality({r \in Req : req[r].pc \in {"begin", "tx"}})
    + Cardinality({p \in ProcIds : proc[p].pc \notin {"idle", "done"}})

\* work may start: fewer than MaxBusy requests and processes are under way and
\* the n rows it may write fit into MaxLive rows
LiveRoom(n) == Busy < MaxBusy /\ Len(runs) + Need + n <= MaxLive

\* the ledger with at most MaxBusy requests and processes under way, MaxLive
\* requests and MaxLive rows
LiveNext ==
    \/ \E r \in Req : \E m \in ReqModeInputs :
          r <= MaxLive /\ LiveRoom(1 + PostRow(m)) /\ Arrive(r, "run", m)
    \/ \E r \in Req : r <= MaxLive /\ LiveRoom(1) /\ Arrive(r, "evaluate", "evaluate")
    \/ \E r \in Req : BeginImmediate(r)
    \/ \E r \in Req : BeginBusy(r)
    \/ \E r \in Req : CheckAndInsert(r)
    \/ \E j \in JobIds : BgStart(j)
    \/ \E j \in JobIds : BgOk(j)
    \/ \E j \in JobIds : BgErr(j)
    \/ \E j \in JobIds : EvStart(j)
    \/ \E j \in JobIds : EvFinish(j)
    \/ \E p \in ProcIds : PipeGuard(p)
    \/ \E p \in ProcIds : PipeBody(p)
    \/ \E m \in SchedModeInputs : \E open \in BOOLEAN :
          LiveRoom(1 + PostRow(m)) /\ SchedMain(m, open)
    \/ SchedLog
    \/ SchedLogFail
    \/ \E m \in CliModeInputs : LiveRoom(PostRow(m)) /\ CliMain(m)

\* a step of the background task of job j: its own writes and the routine it
\* runs, which returns or raises
TaskStep(j) ==
    \/ BgStart(j)
    \/ PipeGuard(j)
    \/ PipeBody(j)
    \/ BgOk(j)
    \/ BgErr(j)

\* a handler inside its transaction commits or rolls back, and a started
\* background thread keeps running (it waits for the write lock, which the
\* handlers hold for one transaction each)
LedgerFairness ==
    /\ WF_vars(\E r \in Req : CheckAndInsert(r))
    /\ \A j \in JobIds : WF_vars(TaskStep(j))

LiveSpec == Init /\ [][LiveNext]_vars /\ LedgerFairness

RiskNext ==
    \/ \E rec \in RecInputs : ValidateTrade(rec)
    \/ \E a \in SizeInputs : CalculatePositionSize(a.entry_price, a.stop_loss_price)

RiskSpec == RiskInit /\ [][RiskNext]_vars

RetryNext ==
    \/ \E c \in Callers, a \in RetryArgInputs : Call(c, a)
    \/ \E c \in Callers : GateAcquire(c)
    \/ \E c \in Callers : GateRecord(c)
    \/ \E c \in Callers : Invoke(c)
    \/ \E c \in Callers, o \in OutcomeInputs : CallFnEnds(c, o)
    \/ \E c \in Callers : BackoffDone(c)
    \/ \E c \in Callers : Return(c)
    \/ Tick

RetrySpec == RetryInit /\ [][RetryNext]_vars

\* call_with_retry entered while fewer than MaxActive calls are under way
CallUpTo(c, a) ==
    /\ Cardinality({d \in Callers : caller[d].pc # "idle"}) < MaxActive
    /\ Call(c, a)

RetryLiveNext ==
    \/ \E c \in Callers, a \in RetryArgInputs : CallUpTo(c, a)
    \/ \E c \in Callers : GateAcquire(c)
    \/ \E c \in Callers : GateRecord(c)
    \/ \E c \in Callers : Invoke(c)
    \/ \E c \in Callers, o \in OutcomeInputs : CallFnEnds(c, o)
    \/ \E c \in Callers : BackoffDone(c)
    \/ \E c \in Callers : Return(c)
    \/ Tick

\* a step of the loop of thread c that does not wait for another thread
LoopStep(c) ==
    \/ GateRecord(c)
    \/ Invoke(c)
    \/ \E o \in OutcomeInputs : CallFnEnds(c, o)
    \/ BackoffDone(c)

\* time passes, a running thread goes on, and a thread waiting for the lock
\* gets it when the lock keeps being released
RetryFairness ==
    /\ WF_vars(Tick)
    /\ \A c \in Callers : SF_vars(GateAcquire(c)) /\ WF_vars(LoopStep(c))

RetryLiveSpec == RetryInit /\ [][RetryLiveNext]_vars /\ RetryFairness

MarketInit ==
    /\ LedgerInit
    /\ RiskIdle /\ store = EmptyStore
    /\ RetryIdle
    /\ MarketIdle

MarketNext ==
    \/ \E mode \in RunModeInputs : MarketStart(mode)
    \/ \E row \in MarketRowInputs, quantity \in QuantityInputs, ai \in AiInputs :
          Generate(row, quantity, ai)
    \/ \E s \in RunStoreInputs : Validate(s)
    \/ Notify
    \/ MarketTick

MarketSpec == MarketInit /\ [][MarketNext]_vars

\* ------------------------------- TradingOrchestrator._get_monitoring_symbols
\* the watchlist and the holdings are read, the screener (if configured) is
\* asked and its error swallowed, and the set is returned as a list
GetMonitoringSymbols(screen) ==
    /\ monitoring.pc = "called"
    /\ \E symbols \in ListsOf(MonitoringSymbols(monitoring.watchlist,
                                                monitoring.holdings, screen)) :
          monitoring' = [monitoring EXCEPT !.pc = "returned", !.screen = screen,
                                           !.symbols = symbols]
    /\ UNCHANGED <<mkt, planned, recommendations, validations, approved_trades, batches>>
    /\ UNCHANGED ledgerVars /\ UNCHANGED riskVars /\ UNCHANGED retryVars

\* the monitoring specification: a call with any watchlist and holdings
MonitorInit ==
    /\ LedgerInit
    /\ RiskIdle /\ store = EmptyStore
    /\ RetryIdle
    /\ RunIdle
    /\ monitoring \in {[NoMonitoring EXCEPT !.pc = "called", !.watchlist = w,
                                             !.holdings = h] :
                           w \in TickerLists, h \in TickerLists}

MonitorNext == \E screen \in ScreenInputs : GetMonitoringSymbols(screen)

MonitorSpec == MonitorInit /\ [][MonitorNext]_vars


TypeOK ==
    /\ dbLock \in 0..NReq
    /\ Len(runs) <= MaxJobs
    /\ batch \subseteq Req
    /\ nextAttempt \in -1..NReq
    /\ \A j \in RowIds(runs) :
          runs[j].status \in {"pending", "running", "completed", "failed", "skipped"}
    /\ store \in StoreInputs
    /\ Len(risk_decisions) <= MaxDecisions
    /\ call.op \in {"", "validate_trade", "calculate_position_size"}


\* ======================================================== claims on the ledger
Active(rs) == {j \in RowIds(rs) : rs[j].status \in {"pending", "running"}}
Terminal(st) == st \in {"completed", "failed", "skipped"}
Rank(st) == IF st = "pending" THEN 0 ELSE IF st = "running" THEN 1 ELSE 2
ApiRunRow(rw) == rw.triggered_by = "manual" /\ rw.mode \in ValidModes
Answered(S) == \A r \in S : req[r].pc = "done"
Admitted(S) == {r \in S : req[r].outcome = "ok"}

\* C1: in every reachable state of the ledger at most one job is pending or
\* running, counting the jobs of every mode admitted through either endpoint.
C1_AtMostOneActive == Cardinality(Active(runs)) <= 1

\* C2 (as claimed): of N >= 2 concurrent POST /orchestrator/run attempts that
\* arrive while no job is pending or running, exactly one is admitted and each
\* of the other N-1 receives Conflict (409).
C2_ExactlyOneOthersConflict ==
    (Cardinality(batch) >= 2 /\ Answered(batch)) =>
        \E w \in batch :
            /\ req[w].outcome = "ok"
            /\ \A r \in batch \ {w} : req[r].outcome = "409"

\* C2 (amended): of those attempts at most one is admitted; every other one
\* inserts nothing and receives Conflict (409) or, when it cannot get the write
\* lock, Database busy (503); when none receives 503 exactly one is admitted,
\* and the admitted attempt's job is the row it returns.
C2_SingleFlight ==
    (Cardinality(batch) >= 2 /\ Answered(batch)) =>
        /\ Cardinality(Admitted(batch)) <= 1
        /\ \A r \in batch :
              /\ req[r].outcome \in {"ok", "409", "503"}
              /\ req[r].outcome # "ok" => req[r].job_id = 0
              /\ req[r].outcome = "ok" =>
                    /\ req[r].job_id \in RowIds(runs)
                    /\ ApiRunRow(runs[req[r].job_id])
        /\ (\A r \in batch : req[r].outcome # "503") =>
              Cardinality(Admitted(batch)) = 1

\* two concurrent attempts have been answered, one admitted and one with Conflict
C2_Witness ==
    /\ Cardinality(batch) >= 2 /\ Answered(batch)
    /\ \E w, r \in batch : req[w].outcome = "ok" /\ req[r].outcome = "409"

\* C3: no two pipeline runs execute at the same time, however they were started
\* (API background task, scheduled runner, CLI).
C3_NoOverlappingRuns == Cardinality({p \in ProcIds : Executing(p)}) <= 1

\* C4: an admission attempt answered with Conflict leaves the ledger as it was
\* (no row inserted, no status, log or failure written) and starts no
\* background run.
C4_ConflictLeavesLedger ==
    [][\A r \in Req :
          (req[r].outcome # "409" /\ req'[r].outcome = "409") =>
              (runs' = runs /\ proc' = proc)]_vars

\* an attempt has been answered with Conflict while a job was outstanding
C4_Witness ==
    \E r \in Req : req[r].outcome = "409" /\ Active(runs) # {}

\* C5: a job's status only moves forward (pending, then running, then completed
\* or failed), only the job's own background task changes it, and a completed,
\* failed or skipped status never changes again; no row is ever removed.
C5_StatusMonotonic ==
    [][/\ Len(runs') >= Len(runs)
       /\ \A j \in RowIds(runs) :
             /\ Terminal(runs[j].status) => runs'[j].status = runs[j].status
             /\ runs'[j].status # runs[j].status =>
                   /\ Rank(runs[j].status) < Rank(runs'[j].status)
                   /\ proc[j].kind \in {"api", "eval"}
                   /\ proc'[j].pc # proc[j].pc
                   /\ \A p \in ProcIds \ {j} : proc'[p] = proc[p]]_vars

\* a job of POST /orchestrator/run has completed while an earlier one had failed
C5_Witness ==
    \E j, k \in RowIds(runs) :
        /\ j < k /\ ApiRunRow(runs[j]) /\ ApiRunRow(runs[k])
        /\ runs[j].status = "failed" /\ runs[k].status = "completed"

\* the except block of _run_orchestrator has run for row j
HandlerRan(rw) == \E i \in 1..Len(rw.logs) : rw.logs[i] = "Error"

\* C6 (as claimed): when the routine of an admitted job raises, the job ends
\* failed with the error text, and the next POST /orchestrator/run attempt made
\* after that is not rejected with Conflict.
C6_FailedThenNextAdmitted ==
    /\ \A j \in RowIds(runs) :
          (ApiRunRow(runs[j]) /\ HandlerRan(runs[j])) =>
              (runs[j].status = "failed" /\ runs[j].error_message \in Errs)
    /\ (nextAttempt > 0 /\ req[nextAttempt].pc = "done") =>
          req[nextAttempt].outcome # "409"

\* C6 (amended): when the routine of an admitted job raises, the job ends failed
\* with the error text, and the failed job no longer blocks admission: the next
\* POST /orchestrator/run attempt, like every other one, is admitted unless at
\* its check another job is pending or running (409) or it cannot get the
\* write lock (503).
C6_FailedFreesSlot ==
    [][/\ \A j \in JobIds :
             (proc[j].pc = "b_err" /\ proc'[j].pc # "b_err") =>
                 /\ runs'[j].status = "failed"
                 /\ runs'[j].error_message = proc[j].err
                 /\ proc[j].err \in Errs
       /\ \A r \in Req :
             (req[r].kind = "run" /\ req[r].pc # "done" /\ req'[r].pc = "done") =>
                 LET o == req'[r].outcome IN
                 /\ o \in {"ok", "409", "503"}
                 /\ o = "409" => Active(runs) # {}
                 /\ o = "503" => dbLock \notin {0, r}
                 /\ o = "ok" <=> (dbLock = r /\ Active(runs) = {})]_vars

\* the first attempt after a failed job has been admitted
C6_Witness ==
    /\ nextAttempt > 0 /\ req[nextAttempt].outcome = "ok"
    /\ \E j \in RowIds(runs) :
          /\ ApiRunRow(runs[j]) /\ runs[j].status = "failed"
          /\ runs[j].error_message \in Errs
          /\ j < req[nextAttempt].job_id

\* ============================================== claims on the risk controller
\* the context the latest call read, and the latest call being a decided BUY
Ctx == GetRiskContext(store)
BuyCall == call.op = "validate_trade" /\ call.action = "BUY"
ApprovedBuy == BuyCall /\ result.approved

\* the share count that risk sizing and the cash cap leave, before the position cap
SharesBeforeCap ==
    LET risk_amount == Ctx.portfolio_equity * RISK_PER_TRADE_PCT
        risk_per_share == Ctx.price * Mils - result.calculated_stop_loss
        by_risk == risk_amount \div risk_per_share
        by_cash == Ctx.cash_balance \div Ctx.price
    IN IF by_risk * Ctx.price > Ctx.cash_balance THEN by_cash ELSE by_risk

\* C7 (validate_trade alone): an approved BUY never costs more than the cash
\* balance read for the decision.
C7_ApprovedBuyWithinCash ==
    ApprovedBuy =>
        /\ result.approved_cost = result.approved_shares * Ctx.price
        /\ result.approved_cost <= Ctx.cash_balance

\* C7: for every BUY that validate_trade approves, approved_cost (approved_shares
\* x price) is at most the cash balance read for the decision, and
\* calculate_position_size never returns a cost above the cash balance.
C7_CostWithinCash ==
    /\ C7_ApprovedBuyWithinCash
    /\ call.op = "calculate_position_size" => result.cost <= Ctx.cash_balance

\* C8: for every BUY that validate_trade approves, the value already held plus
\* approved_cost is at most equity x max_position_size_pct; when the order sized
\* by risk and cash would exceed the cap the share count is reduced to fit (no
\* further share would fit), and a BUY is vetoed when not even one share fits.
C8_PositionCapRespected ==
    BuyCall =>
        LET max_position == Ctx.portfolio_equity * MAX_POSITION_SIZE_PCT
            held == Ctx.current_position_value * Mils
            price == Ctx.price * Mils
        IN /\ result.approved =>
                 /\ result.approved_shares >= 1
                 /\ result.approved_cost = result.approved_shares * Ctx.price
                 /\ held + result.approved_cost * Mils <= max_position
                 /\ held + SharesBeforeCap * price > max_position =>
                       /\ result.approved_shares < SharesBeforeCap
                       /\ held + (result.approved_shares + 1) * price > max_position
                 /\ held + SharesBeforeCap * price <= max_position =>
                       result.approved_shares = SharesBeforeCap
           /\ (Ctx.price > 0 /\ held + price > max_position) => ~result.approved

\* a BUY on a symbol already held has been approved with fewer shares than risk
\* and cash allowed, filling the cap
C8_Witness ==
    /\ ApprovedBuy
    /\ Ctx.current_position_value > 0
    /\ result.approved_shares < SharesBeforeCap
    /\ (Ctx.current_position_value + result.approved_cost) * Mils
          = Ctx.portfolio_equity * MAX_POSITION_SIZE_PCT

\* C9: for every approved BUY the position_pct returned is at most the position
\* cap in percent (max_position_size_pct x 100), also when the share count was
\* reduced by the cash cap or the position cap. (thousandths of a percent)
C9_PositionPctWithinCap ==
    ApprovedBuy => result.position_pct <= MAX_POSITION_SIZE_PCT * 100

\* C10: for every approved BUY, approved_shares x (price - calculated_stop_loss)
\* is at most equity x risk_per_trade_pct; the size is
\* floor(risk_amount / (price - stop_loss)) unless the cash or position cap
\* binds, and then it is smaller; a size below one share is vetoed; equity 10000,
\* cash 5000, price 100, atr 4 gives 15 shares at cost 1500.
C10_RiskBudgetRespected ==
    BuyCall =>
        LET risk_amount == Ctx.portfolio_equity * RISK_PER_TRADE_PCT
            stop_loss == StopLoss(call.stop_loss, Ctx.price, Ctx.atr)
            risk_per_share == Ctx.price * Mils - stop_loss
            floor_size == risk_amount \div risk_per_share
            held == Ctx.current_position_value * Mils
        IN /\ result.approved =>
                 /\ result.calculated_stop_loss = stop_loss
                 /\ result.risk_per_trade = risk_amount
                 /\ result.approved_shares * (Ctx.price * Mils - result.calculated_stop_loss)
                       <= risk_amount
                 /\ result.approved_shares >= 1
                 /\ result.approved_shares <= floor_size
                 /\ (/\ floor_size * Ctx.price <= Ctx.cash_balance
                     /\ held + floor_size * Ctx.price * Mils
                           <= Ctx.portfolio_equity * MAX_POSITION_SIZE_PCT)
                       => result.approved_shares = floor_size
                 /\ (/\ Ctx.portfolio_equity = 10000 /\ Ctx.cash_balance = 5000
                     /\ Ctx.price = 100 /\ Ctx.atr = 4 /\ call.stop_loss = 0
                     /\ Ctx.current_position_value = 0)
                       => (result.approved_shares = 15 /\ result.approved_cost = 1500)
           /\ (Ctx.price > 0 /\ risk_per_share > 0 /\ risk_amount < risk_per_share)
                 => ~result.approved

\* the example has been decided: 15 shares at cost 1500, stop at 90
C10_Witness ==
    /\ ApprovedBuy
    /\ Ctx.portfolio_equity = 10000 /\ Ctx.cash_balance = 5000
    /\ Ctx.price = 100 /\ Ctx.atr = 4 /\ call.stop_loss = 0
    /\ result.approved_shares = 15 /\ result.approved_cost = 1500
    /\ result.calculated_stop_loss = 90 * Mils

\* the market data read by the latest call is volatile: atr / price > max_volatility_pct
Volatile == Ctx.price > 0 /\ Ctx.atr * Mils > MAX_VOLATILITY_PCT * Ctx.price

\* C11 (as claimed): every proposal, whatever its action, whose market data has
\* atr / price > max_volatility_pct is vetoed by validate_trade.
C11_VolatileAlwaysVetoed ==
    (call.op = "validate_trade" /\ Volatile) => ~result.approved

\* C11 (amended): every BUY proposal whose market data has
\* atr / price > max_volatility_pct is vetoed, whatever the cash, equity, held
\* position, sector exposure and proposed stop are; the veto cites the volatility
\* only for volatile data, and does so in the example (equity 10000, cash 5000,
\* price 100, atr 12). SELL and HOLD proposals do not pass the filter.
C11_VolatileBuyVetoed ==
    BuyCall =>
        /\ Volatile => (~result.approved /\ result.keys = {"approved", "reason"})
        /\ result.reason = "Excessive volatility" => Volatile
        /\ (/\ Ctx.portfolio_equity = 10000 /\ Ctx.cash_balance = 5000
            /\ Ctx.price = 100 /\ Ctx.atr = 12 /\ call.stop_loss = 0
            /\ Ctx.current_position_value = 0 /\ Ctx.sector_exposure = 0)
              => result.reason = "Excessive volatility"

\* a BUY that passes every other check has been vetoed for its volatility
C11_Witness ==
    /\ BuyCall /\ Volatile
    /\ ~result.approved /\ result.reason = "Excessive volatility"
    /\ Ctx.cash_balance = 5000 /\ Ctx.current_position_value > 0

SellCall == call.op = "validate_trade" /\ call.action = "SELL"

\* C12: a SELL proposal is approved if and only if the held quantity of the
\* symbol is greater than 0, and when approved approved_shares is the full held
\* quantity (all-or-nothing, never a partial sell). (quantity in thousandths)
C12_SellAllOrNothing ==
    SellCall =>
        /\ result.approved <=> Ctx.current_quantity > 0
        /\ result.approved => result.approved_shares * Mils = Ctx.current_quantity

\* C12 (what holds): a SELL is approved exactly when a quantity is held, and
\* approved_shares is the held quantity without its fractional part.
C12_SellApprovedIffHeld ==
    SellCall =>
        /\ result.approved <=> Ctx.current_quantity > 0
        /\ result.approved =>
              /\ result.approved_shares * Mils <= Ctx.current_quantity
              /\ Ctx.current_quantity < (result.approved_shares + 1) * Mils

\* C13: every decision validate_trade returns, for any action and any store, is
\* a veto or carries approved_shares >= 1.
C13_VetoOrAtLeastOneShare ==
    call.op = "validate_trade" =>
        \/ ~result.approved
        \/ ("approved_shares" \in result.keys /\ result.approved_shares >= 1)

\* C13 (what holds): every approved BUY carries approved_shares >= 1.
C13_ApprovedBuyAtLeastOneShare ==
    ApprovedBuy => ("approved_shares" \in result.keys /\ result.approved_shares >= 1)

\* the rows the audit log held before the step are still its first rows
AuditRowsKept ==
    /\ Len(risk_decisions') >= Len(risk_decisions)
    /\ SubSeq(risk_decisions', 1, Len(risk_decisions)) = risk_decisions

\* C14: every call of validate_trade, approval or veto, whatever the action
\* (BUY, SELL, HOLD or any other), appends exactly one row to risk_decisions, and
\* no earlier row is updated or deleted.
C14_OneAuditRowPerCall ==
    [][call'.op = "validate_trade" =>
          (AuditRowsKept /\ Len(risk_decisions') = Len(risk_decisions) + 1)]_vars

\* C14 (what holds): the audit log is append-only, and every call of
\* validate_trade with an action other than HOLD appends exactly one row, which
\* records the action, the verdict, the reason and the approved shares.
C14_OneAuditRowPerDecidedCall ==
    [][/\ AuditRowsKept
       /\ (call'.op = "validate_trade" /\ call'.action # "HOLD") =>
             /\ Len(risk_decisions') = Len(risk_decisions) + 1
             /\ LET row == risk_decisions'[Len(risk_decisions')]
                IN /\ row.action = call'.action
                   /\ row.approved = (IF result'.approved THEN 1 ELSE 0)
                   /\ row.reason = result'.reason
                   /\ row.approved_shares =
                         (IF "approved_shares" \in result'.keys
                          THEN <<result'.approved_shares>> ELSE <<>>)
       /\ call'.op # "validate_trade" => risk_decisions' = risk_decisions]_vars

\* C15: validate_trade approves every HOLD proposal with reason 'No action
\* required', for any state of the store and without reading the portfolio or
\* market context: the decision has no other entry and is the same for every
\* store.
C15_HoldAlwaysApproved ==
    (call.op = "validate_trade" /\ call.action = "HOLD") =>
        /\ result.approved
        /\ result.reason = "No action required"
        /\ result.keys = {"approved", "reason"}
        /\ result = [NoResult EXCEPT !.keys = {"approved", "reason"},
                                     !.approved = TRUE,
                                     !.reason = "No action required"]

\* a HOLD has been approved on a store whose market data is volatile and whose
\* cash balance is negative
C15_Witness ==
    /\ call.op = "validate_trade" /\ call.action = "HOLD"
    /\ result.approved
    /\ Volatile /\ Ctx.cash_balance < 0

Invoked(c) == caller'[c].invocations = caller[c].invocations + 1

\* thread c leaves _wait_for_rate_limit in this step, having set _last_call_time
Stamped(c) == caller[c].pc = "gate_sleep" /\ caller'[c].pc = "invoke"

\* C17: with any number of concurrent callers of call_with_retry, no two
\* invocations of the wrapped function start less than min_call_interval apart:
\* whenever a thread enters call_fn, the previous entry (of any thread) lies at
\* least MIN_CALL_INTERVAL seconds back.
C17_InvocationsSpaced ==
    [][(\E c \in Callers : Invoked(c)) => lastStartAge >= MIN_CALL_INTERVAL]_vars

\* what the gate does keep apart is the moments at which _last_call_time is set:
\* whenever a thread sets it, the previous setting lies at least
\* MIN_CALL_INTERVAL seconds back, and only the holder of the lock sets it
C17_StampsSpaced ==
    [][\A c \in Callers :
          Stamped(c) => rateLock = c /\ lastCallAge >= MIN_CALL_INTERVAL]_vars

\* ------------------------------------------------------------------ C18
\* call_fn of thread c returns or raises in this step
CallEnded(c) == caller[c].pc = "calling" /\ caller'[c].pc # "calling"

\* the error call_fn raised in this step is the one without any rate-limit mark
RaisedPlainError(c) == CallEnded(c) /\ caller'[c].last_error = "ValueError"

\* C18: when the wrapped function raises an error that is not a rate-limit
\* error, call_with_retry returns None at once, at whatever attempt: the step
\* in which the error is raised ends the call with None, starts no backoff
\* sleep, and the call invokes the function no more; a call that has ended
\* holds a response or None, never the error.
C18_PlainErrorReturnsNone ==
    [][\A c \in Callers :
          /\ RaisedPlainError(c) =>
                /\ caller'[c].pc = "done"
                /\ caller'[c].result = "None"
                /\ caller'[c].sleeps = caller[c].sleeps
                /\ caller'[c].timer = 0
                /\ caller'[c].attempt = caller[c].attempt
          /\ caller[c].pc = "done" => ~Invoked(c)
          /\ caller'[c].pc = "done" => caller'[c].result \in {"None", "response"}]_vars

\* a call has ended with None on a plain error raised at its third attempt,
\* after two rate-limit errors and their two sleeps
C18_Witness ==
    \E c \in Callers :
        /\ caller[c].pc = "done"
        /\ caller[c].last_error = "ValueError"
        /\ caller[c].result = "None"
        /\ caller[c].attempt = 2
        /\ caller[c].invocations = 3
        /\ Len(caller[c].sleeps) = 2

\* ------------------------------------------------------------------ C19
\* the sleeps a call takes after its first n rate-limit failures
RECURSIVE BackoffSleeps(_, _)
BackoffSleeps(base_delay, n) ==
    IF n = 0 THEN <<>>
    ELSE Append(BackoffSleeps(base_delay, n - 1), base_delay * Pow2(n - 1))

\* the call of thread c is under way
Calling(c) == caller[c].pc \notin {"idle", "done"}

\* the last error of thread c is one of the rate-limit errors call_fn raises
RateLimited(c) == caller[c].last_error \in {"ResourceExhausted", "ValueError: 429"}

\* the counts of the call of thread c are those of its attempt number
CountsFollowAttempt(c) ==
    /\ caller[c].attempt <= caller[c].max_retries
    /\ caller[c].pc \in {"gate", "gate_sleep", "invoke"} =>
          /\ caller[c].invocations = caller[c].attempt
          /\ caller[c].sleeps = BackoffSleeps(caller[c].base_delay, caller[c].attempt)
    /\ caller[c].pc = "calling" =>
          /\ caller[c].invocations = caller[c].attempt + 1
          /\ caller[c].sleeps = BackoffSleeps(caller[c].base_delay, caller[c].attempt)
    /\ caller[c].pc = "backoff" =>
          /\ caller[c].attempt < caller[c].max_retries
          /\ caller[c].invocations = caller[c].attempt + 1
          /\ caller[c].sleeps = BackoffSleeps(caller[c].base_delay, caller[c].attempt + 1)
          /\ caller[c].timer <= BackoffDelay(caller[c].base_delay, caller[c].attempt)
    /\ caller[c].pc = "done" =>
          /\ caller[c].invocations = caller[c].attempt + 1
          /\ caller[c].sleeps = BackoffSleeps(caller[c].base_delay, caller[c].attempt)

\* a call that ended with None on a rate-limit error has used every attempt
ExhaustedAtLast(c) ==
    caller[c].pc = "done" /\ caller[c].result = "None" /\ RateLimited(c) =>
        /\ caller[c].attempt = caller[c].max_retries
        /\ caller[c].invocations = caller[c].max_retries + 1
        /\ Len(caller[c].sleeps) = caller[c].max_retries

\* C19: a call whose function keeps raising rate-limit errors invokes it
\* exactly max_retries + 1 times, sleeps base_delay * 2^k after the k-th failed
\* attempt for k = 0 .. max_retries - 1, does not sleep after the last one and
\* returns None; a call returns the response of the first success and invokes
\* the function no more; and every call that has begun ends.
C19_RetriesBoundedAndEnds ==
    /\ [](\A c \in Callers : CountsFollowAttempt(c) /\ ExhaustedAtLast(c))
    /\ [][\A c \in Callers :
            CallEnded(c) /\ caller'[c].result = "response" => caller'[c].pc = "done"]_vars
    /\ \A c \in Callers : Calling(c) ~> caller[c].pc = "done"

\* a call with the default max_retries has ended with None after four
\* rate-limited invocations and the sleeps of 1, 2 and 4 seconds between them
C19_Witness ==
    \E c \in Callers :
        /\ caller[c].pc = "done" /\ caller[c].result = "None" /\ RateLimited(c)
        /\ caller[c].max_retries = MAX_RETRIES
        /\ caller[c].invocations = MAX_RETRIES + 1
        /\ caller[c].sleeps = <<1, 2, 4>>

\* ------------------------------------------------------------------ C20
\* process p takes this step
Steps(p) == proc'[p] # proc[p]

\* the rows of mode postmarket in rs
PostmarketRows(rs) == {j \in RowIds(rs) : rs[j].mode = "postmarket"}

\* an invocation whose guard found today's completed row writes no new
\* postmarket row, neither in run_postmarket nor in the caller it returns to
SkippedWritesNoRow ==
    \A p \in ProcIds :
        Steps(p) /\ (proc[p].res = "skipped"
                      \/ (proc[p].pc = "p_guard" /\ HasRunToday(runs, "postmarket")))
        => PostmarketRows(runs') = PostmarketRows(runs)

\* the work of run_postmarket (summary, snapshot, risk summary) is not done
\* once a completed postmarket row of today is in the ledger
NoSecondRun ==
    \A p \in ProcIds :
        Steps(p) /\ proc[p].pc = "p_body" /\ proc[p].mode = "postmarket"
        => ~HasRunToday(runs, "postmarket")

\* C20: once the ledger holds a completed postmarket job dated today, a
\* postmarket invocation, however triggered, is skipped entirely: it does none
\* of the routine's work and writes no new postmarket ledger row, so the
\* routine never runs twice in one day after a success.
C20_PostmarketOncePerDay == [][SkippedWritesNoRow /\ NoSecondRun]_vars

\* the two halves on their own
C20_SkippedWritesNoRow == [][SkippedWritesNoRow]_vars
C20_NoSecondRun == [][NoSecondRun]_vars

\* what the guard itself does: the step whose query finds today's completed row leaves
\* the ledger alone and returns to the caller without entering the routine
C20_GuardSkips ==
    [][\A p \in ProcIds :
          /\ Steps(p) /\ proc[p].pc = "p_guard" /\ HasRunToday(runs, "postmarket")
          /\ proc'[p].res # "fail_open"
          => runs' = runs /\ proc'[p].pc \notin PipePcs]_vars

\* ------------------------------------------------------------------ C21
\* the rows this step inserts or updates
Written(j) == j \notin RowIds(runs) \/ runs'[j] # runs[j]

\* C21: a run that is skipped, by the postmarket guard or because the market
\* is closed, is reported with an outcome distinct from success and failure:
\* the process of a skipped run writes no row with status completed or failed,
\* whether it was started through the API or by the scheduled runner.
C21_SkippedReportedDistinctly ==
    [][\A p \in ProcIds :
          Steps(p) /\ proc[p].res = "skipped" =>
              \A j \in RowIds(runs') :
                  Written(j) => runs'[j].status \notin {"completed", "failed"}]_vars

\* the market-closed exit of the scheduled runner is reported as skipped
C21_MarketClosedSkipped ==
    [][\A j \in RowIds(runs') :
          Written(j) /\ runs'[j].error_message = "Market closed" =>
              runs'[j].status = "skipped"]_vars

\* ------------------------------------------------------------------ C22
\* the AI call of the last generate_recommendation ended in None or in a text
\* without JSON
AiFailed == planned.ai \in {"None", "unparsable"}

\* C22: when the AI call for a symbol ends in None or returns text that cannot
\* be parsed, generate_recommendation returns the rule-based fallback
\* recommendation, whose action is one of BUY, SELL, HOLD and whose confidence
\* is below 1.
C22_FallbackIsTradeProposal ==
    AiFailed /\ planned.rec.some =>
        /\ planned.rec.source = "fallback"
        /\ planned.rec.action \in {"BUY", "SELL", "HOLD"}
        /\ planned.rec.confidence < 100

\* what holds of it: the call does not raise and returns the fallback with a
\* confidence below 1 whenever fresh price data got it as far as the AI step
C22_FallbackReturned ==
    AiFailed =>
        /\ ~planned.rec.raised
        /\ planned.rec.some =>
              planned.rec.source = "fallback" /\ planned.rec.confidence < 100

\* and the loop goes on to the next symbol
C22_RunContinues ==
    [][mkt.pc = "generate" /\ mkt'.elapsed = mkt.elapsed
       /\ planned'.ai \in {"None", "unparsable"}
          => mkt'.pc # "raised" /\ mkt'.i = mkt.i + 1]_vars

\* a fallback recommendation that is no BUY, SELL or HOLD
C22_FallbackSkips ==
    AiFailed /\ planned.rec.some /\ planned.rec.action = "SKIP"

\* ------------------------------------------------------------------ C23
\* C23: no trade is approved on stale market data: whenever the symbol's
\* latest market_data row is older than the TTL when the risk controller
\* decides, the decision is no approval.
C23_NoApprovalOnStaleData ==
    \A k \in 1..Len(validations) :
        validations[k].age > MARKET_DATA_TTL => ~validations[k].approved

\* what holds: a row that is stale when the planner reads it gets no
\* recommendation, and so no validation and no approval
C23_StaleNotRecommended ==
    planned.age > MARKET_DATA_TTL => ~planned.rec.some /\ ~planned.rec.raised

C23_StaleAtReadNotValidated ==
    \A k \in 1..Len(recommendations) : recommendations[k].age <= MARKET_DATA_TTL

\* ------------------------------------------------------------------ C24
\* the rows run_postmarket's _log_run wrote after a run that sent the summary
\* and saved the snapshot (the scheduled runner's own rows have no
\* completed_at, the API's job rows are triggered by 'api')
SummaryRuns(rs) ==
    {j \in PostmarketRows(rs) :
        /\ rs[j].status = "completed"
        /\ rs[j].triggered_by = "scheduled"
        /\ rs[j].completed_at # 0}

\* C24: under any interleaving of the postmarket invocations of one day
\* (scheduled runner, CLI, API), at most one of them sends the daily summary
\* and records the completed postmarket row.
C24_OneSummaryPerDay == Cardinality(SummaryRuns(runs)) <= 1

\* what the guard does give: an invocation that starts after the first
\* completed row is in the ledger, and whose ledger query answers, adds no run
C24_GuardAfterCompletion ==
    [][\A p \in ProcIds :
          /\ Steps(p) /\ proc[p].pc = "p_guard" /\ SummaryRuns(runs) # {}
          /\ proc'[p].res # "fail_open"
          => proc'[p].pc # "p_body"]_vars

\* ------------------------------------------------------------------ C25
\* thread c is inside the with-block of _wait_for_rate_limit
InGate(c) == caller[c].pc = "gate_sleep"

\* C25: the rate-gate lock is held only while a caller waits out the interval
\* and records its timestamp, never while the wrapped function executes nor
\* during a backoff sleep; callers are served at the gate one at a time; a
\* caller that is slow in call_fn or sleeps in a backoff never keeps another
\* from the gate, and whoever is in the gate waits no longer than what is
\* left of min_call_interval.
C25_LockOnlyInGate ==
    /\ rateLock \in Callers \cup {0}
    /\ \A c \in Callers :
          /\ rateLock = c <=> InGate(c)
          /\ caller[c].pc \in {"invoke", "calling", "backoff", "done", "idle"} => rateLock # c
          /\ InGate(c) => caller[c].timer = RateLimitWait(lastCallAge)
          /\ (caller[c].pc = "gate" /\ \A d \in Callers : ~InGate(d)) => ENABLED GateAcquire(c)
    /\ Cardinality({c \in Callers : InGate(c)}) <= 1

\* one thread has been in call_fn for a whole interval, or sleeps in a backoff,
\* while another has taken the lock and passes the gate without waiting
C25_Witness ==
    \E c, d \in Callers :
        /\ c # d
        /\ \/ caller[c].pc = "calling" /\ lastStartAge >= MIN_CALL_INTERVAL
           \/ caller[c].pc = "backoff" /\ caller[c].timer > 0
        /\ rateLock = d /\ InGate(d) /\ caller[d].timer = 0

\* ------------------------------------------------------------------ C26
\* the decision on the same BUY had the sector held nothing
WithoutSector ==
    ValidateBuy([action |-> "BUY", stop_loss |-> call.stop_loss],
                [Ctx EXCEPT !.sector_exposure = 0])

\* C26: for every approved BUY the existing sector exposure plus approved_cost
\* is at most equity x max_sector_exposure_pct, and the sector check never
\* changes the share count: the approved shares are those the other checks
\* leave, and a breach is an outright veto, not a reduction.
C26_SectorCapVetoes ==
    BuyCall =>
        LET max_sector == Ctx.portfolio_equity * MAX_SECTOR_EXPOSURE_PCT
        IN /\ result.approved =>
                 /\ (Ctx.sector_exposure + result.approved_cost) * Mils <= max_sector
                 /\ WithoutSector.approved
                 /\ result.approved_shares = WithoutSector.approved_shares
                 /\ result.approved_cost = WithoutSector.approved_cost
           /\ (/\ WithoutSector.approved
               /\ (Ctx.sector_exposure + WithoutSector.approved_cost) * Mils > max_sector)
                 => ~result.approved /\ result.reason = "Sector limit"
           /\ result.reason = "Sector limit" => result.keys = {"approved", "reason"}

\* a BUY has been vetoed for the sector limit although a smaller order of the
\* same symbol would have fitted under it
C26_Witness ==
    /\ BuyCall
    /\ ~result.approved /\ result.reason = "Sector limit"
    /\ WithoutSector.approved /\ WithoutSector.approved_shares > 1
    /\ (Ctx.sector_exposure + Ctx.price) * Mils
          <= Ctx.portfolio_equity * MAX_SECTOR_EXPOSURE_PCT

\* ------------------------------------------------------------------ C28
\* C28: for a BUY the stop used is the proposal's stop_loss when it has one,
\* else price - stop_loss_atr_multiplier x atr when an atr is available, else
\* 0.95 x price; the proposal is vetoed when that stop is not below the price,
\* so every approved BUY has calculated_stop_loss < price. (thousandths of a
\* dollar; a stop_loss of 0 is no stop_loss)
C28_StopBelowPrice ==
    (BuyCall /\ Ctx.price > 0) =>
        LET price == Ctx.price * Mils
            stop == IF call.stop_loss # 0 THEN call.stop_loss * Mils
                    ELSE IF Ctx.atr # 0 THEN price - (STOP_LOSS_ATR_MULTIPLIER * Ctx.atr)
                    ELSE (95 * price) \div 100
        IN /\ stop >= price =>
                 ~result.approved /\ result.reason = "Stop loss is above entry price (invalid setup)"
           /\ result.approved =>
                 /\ "calculated_stop_loss" \in result.keys
                 /\ result.calculated_stop_loss = stop
                 /\ result.calculated_stop_loss < price

\* a BUY has been approved with the stop its proposal named, not the ATR stop
\* its market data would have given
C28_Witness ==
    /\ ApprovedBuy
    /\ call.stop_loss = 90 /\ Ctx.atr = 4 /\ Ctx.price = 100
    /\ result.calculated_stop_loss = 90 * Mils

\* and a BUY whose proposed stop is not below the price has been vetoed for it
C28_VetoWitness ==
    /\ BuyCall /\ Ctx.price = 100 /\ call.stop_loss >= 100
    /\ result.reason = "Stop loss is above entry price (invalid setup)"

\* ------------------------------------------------------------------ C27
\* the k-th recommendation has no action a trade proposal can have
InvalidAction(k) == recommendations[k].action \notin {"BUY", "SELL", "HOLD"}

\* C27: a proposal whose action is not BUY, SELL or HOLD (the fallback's SKIP)
\* is never approved: in market and in review mode it is passed to
\* validate_trade, vetoed with the 'Invalid action' reason, and not among the
\* notified trades.
C27_InvalidActionVetoed ==
    \A k \in 1..Len(recommendations) :
        InvalidAction(k) =>
            /\ \A n \in 1..Len(approved_trades) :
                  approved_trades[n].symbol # recommendations[k].symbol
            /\ \A m \in 1..Len(batches) : \A n \in 1..Len(batches[m]) :
                  batches[m][n].symbol # recommendations[k].symbol
            /\ k <= Len(validations) =>
                  /\ validations[k].symbol = recommendations[k].symbol
                  /\ ~validations[k].approved
                  /\ validations[k].reason = "Invalid action"
            /\ mkt.pc = "done" => k <= Len(validations)

\* a run has ended in which a SKIP of the fallback was vetoed as an invalid
\* action while another symbol's trade was approved and notified
C27_Witness ==
    /\ mkt.pc = "done"
    /\ batches # <<>>
    /\ \E k \in 1..Len(recommendations) :
          /\ recommendations[k].action = "SKIP"
          /\ recommendations[k].source = "fallback"
          /\ validations[k].reason = "Invalid action"

\* ------------------------------------------------------------------ C30
\* the validations that approved, in the order they were made
RECURSIVE ApprovedOf(_)
ApprovedOf(vs) ==
    IF vs = <<>> THEN <<>>
    ELSE LET rest == ApprovedOf(SubSeq(vs, 1, Len(vs) - 1))
             last == vs[Len(vs)]
         IN IF last.approved THEN Append(rest, last.symbol) ELSE rest

\* every recommendation kept by the loop has its validation, in order
AllValidated ==
    /\ Len(validations) = Len(recommendations)
    /\ \A k \in 1..Len(recommendations) :
          validations[k].symbol = recommendations[k].symbol

\* C30: in a market-mode run every non-HOLD recommendation is validated by the
\* risk engine before any notification is sent, and the approvals are sent in
\* at most one batch notification per run: exactly one batch with all approved
\* trades when at least one is approved, and none otherwise.
C30_ValidateThenOneBatch ==
    /\ [](mkt.mode = "market" =>
            /\ Len(batches) <= 1
            /\ batches # <<>> => AllValidated
            /\ [n \in 1..Len(approved_trades) |-> approved_trades[n].symbol]
                  = ApprovedOf(validations)
            /\ mkt.pc = "done" =>
                  /\ AllValidated
                  /\ batches = IF approved_trades # <<>> THEN <<approved_trades>> ELSE <<>>
            /\ mkt.pc # "done" => batches = <<>>)
    /\ [][(mkt.mode = "market" /\ planned' # planned /\ ~planned'.rec.raised) =>
            recommendations' = IF planned'.rec.some /\ planned'.rec.action # "HOLD"
                               THEN Append(recommendations, planned'.rec)
                               ELSE recommendations]_vars

\* a market run has ended with two approved trades sent in one batch
C30_Witness ==
    /\ mkt.mode = "market" /\ mkt.pc = "done"
    /\ Len(approved_trades) >= 2
    /\ batches = <<approved_trades>>

\* ------------------------------------------------------------------ C29
\* job j was admitted by POST /orchestrator/run and has not ended
RunJobActive(j) ==
    /\ j \in RowIds(runs)
    /\ proc[j].kind = "api"
    /\ runs[j].status \in {"pending", "running"}

RunJobEnded(j) == j \in RowIds(runs) /\ runs[j].status \in {"completed", "failed"}

C31_HoldNeverValidated ==
    /\ [](/\ \A k \in 1..Len(recommendations) : recommendations[k].action # "HOLD"
          /\ \A k \in 1..Len(validations) : validations[k].action # "HOLD"
          /\ \A k \in 1..Len(risk_decisions) : risk_decisions[k].action # "HOLD"
          /\ Len(risk_decisions) = Len(validations)
          /\ \A n \in 1..Len(approved_trades) : approved_trades[n].action # "HOLD"
          /\ \A m \in 1..Len(batches) : \A n \in 1..Len(batches[m]) :
                batches[m][n].action # "HOLD")
    /\ [][(planned' # planned /\ planned'.rec.action = "HOLD") =>
            /\ recommendations' = recommendations
            /\ risk_decisions' = risk_decisions]_vars

\* a review has ended whose last holding got a HOLD from the AI, while the
\* SELL of another holding was validated, approved and notified
C31_Witness ==
    /\ mkt.mode = "review" /\ mkt.pc = "done"
    /\ planned.rec.some /\ planned.rec.action = "HOLD" /\ planned.rec.source = "ai"
    /\ Len(recommendations) = NSymbols - 1
    /\ Len(risk_decisions) = NSymbols - 1
    /\ batches # <<>>

\* every store a run is validated on is one of the stores of the input sets
RunStoresValid == RunStoreInputs \subseteq StoreInputs

\* ------------------------------------------------------------------ C32
\* process p is in run_postmarket's routine and leaves it in this step
PostmarketEnds(p) ==
    Steps(p) /\ proc[p].pc = "p_body" /\ proc[p].mode = "postmarket"

\* the rows of rs that run_postmarket logged with the given status
LoggedRuns(rs, status) ==
    {j \in PostmarketRows(rs) :
        /\ rs[j].status = status
        /\ rs[j].triggered_by = "scheduled"
        /\ rs[j].completed_at # 0}

GuardStep(p) == Steps(p) /\ proc[p].pc = "p_guard"

\* C33: if the ledger query of the postmarket guard fails, the guard reports
\* 'not run today' and the routine runs (fail-open): a guard step either
\* enters the routine or skips, it never raises to the caller, it skips only
\* when the query answered that a completed row is dated today, and a guard
\* whose query failed enters the routine.
C33_GuardFailsOpen ==
    [][\A p \in ProcIds : GuardStep(p) =>
          /\ proc'[p].pc \in {"p_body", AfterReturn(proc[p].kind)}
          /\ proc'[p].err = ""
          /\ proc'[p].pc # "p_body" => HasRunToday(runs, "postmarket")
          /\ proc'[p].res = "fail_open" =>
                proc'[p].pc = "p_body" /\ proc'[p].mode = "postmarket"]_vars

\* a guard failed open on a ledger that holds today's completed row, and the
\* routine ran again and logged a second completed row
C33_Witness ==
    /\ Cardinality(LoggedRuns(runs, "completed")) >= 2
    /\ \E p \in ProcIds : proc[p].res = "fail_open" /\ proc[p].pc \in {"b_ok", "s_log"}

\* ------------------------------------------------------------------ C34
\* sequence a is a prefix of sequence b
IsPrefix(a, b) == Len(a) <= Len(b) /\ SubSeq(b, 1, Len(a)) = a

\* C34: a job's logs only grow: whatever a step writes, every row of the
\* ledger stays, and the logs it had before the step are a prefix of the logs
\* it has after it, for jobs of every mode (run jobs, whose lines _append_log
\* appends, and evaluate jobs, whose summary is written once).
C34_LogsOnlyGrow ==
    [][\A j \in RowIds(runs) :
          /\ j \in RowIds(runs')
          /\ IsPrefix(runs[j].logs, runs'[j].logs)]_vars

\* a run job has logged its four lines and an evaluate job its summary
C34_Witness ==
    \E j, k \in RowIds(runs) :
        /\ runs[j].mode \in ValidModes /\ runs[j].status = "completed"
        /\ runs[j].logs = <<"Starting", "Initializing", "Running", "Completed">>
        /\ runs[k].mode = "evaluate" /\ runs[k].status = "completed"
        /\ runs[k].logs = <<"summary">>

\* ------------------------------------------------------------------ C35
\* this step is a call of validate_trade
ValidateCall == call'.op = "validate_trade"

\* this step and the one before it are calls of validate_trade with the same
\* proposal
SameProposalAgain ==
    /\ ValidateCall /\ call.op = "validate_trade"
    /\ call'.action = call.action /\ call'.stop_loss = call.stop_loss

Monitored == monitoring.pc = "returned"

\* the watchlist and the holdings of the call, as a set
WatchedOrHeld == Range(monitoring.watchlist) \cup Range(monitoring.holdings)

\* no symbol is listed twice
NoDuplicates(q) == \A k, m \in 1..Len(q) : q[k] = q[m] => k = m

\* C36: every call of _get_monitoring_symbols returns (the run proceeds); if
\* the screener raised, the returned symbols are exactly watchlist + holdings,
\* and if it returned they are watchlist + holdings + screened candidates; the
\* returned list has no duplicates.
C36_MonitoredSymbols ==
    /\ [](Monitored =>
            /\ NoDuplicates(monitoring.symbols)
            /\ monitoring.screen.kind = "raises" =>
                  Range(monitoring.symbols) = WatchedOrHeld
            /\ monitoring.screen.kind = "returns" =>
                  Range(monitoring.symbols) =
                      WatchedOrHeld \cup Range(monitoring.screen.screened))
    /\ [][monitoring.pc = "called" => monitoring'.pc = "returned"]_vars

\* the screener raised on a call whose watchlist and holdings overlap and
\* name a ticker twice: the list has each of the two tickers once
C36_Witness ==
    /\ Monitored /\ monitoring.screen.kind = "raises"
    /\ monitoring.watchlist = <<"AAPL", "AAPL">>
    /\ monitoring.holdings = <<"AAPL", "MSFT">>
    /\ monitoring.symbols = <<"MSFT", "AAPL">>

\* ------------------------------------------------------------------ C37
\* the last call of generate_recommendation read no price (no row, or a row
\* whose price is 0) or a row older than the TTL
NoUsableData == planned.price = 0 \/ planned.age > MARKET_DATA_TTL

\* C37: generate_recommendation returns None for a symbol with no price data
\* or stale market data, and makes no AI call, no fallback recommendation and
\* no recommendation row; the step leaves the run's recommendations as they
\* were.
C37_NoDataNoRecommendation ==
    /\ [](NoUsableData =>
            /\ ~planned.rec.some /\ ~planned.rec.raised
            /\ ~planned.trace.ai_called
            /\ ~planned.trace.fallback
            /\ ~planned.trace.written)
    /\ [][(planned' # planned /\ (planned'.price = 0 \/ planned'.age > MARKET_DATA_TTL))
            => recommendations' = recommendations /\ mkt'.pc # "raised"]_vars

\* a symbol's row was stale when the AI would have answered with a BUY: no
\* call, no recommendation, after the run's first symbol got its AI
\* recommendation written and kept
C37_Witness ==
    /\ planned.age > MARKET_DATA_TTL /\ planned.price > 0 /\ planned.ai = "object"
    /\ ~planned.rec.some
    /\ mkt.i = 2
    /\ Len(recommendations) = 1 /\ recommendations[1].source = "ai"

\* a symbol without a market_data row got no recommendation
C37_NoRowWitness ==
    /\ planned.price = 0 /\ planned.age = 0 /\ planned.ai = "None"
    /\ ~planned.rec.some /\ mkt.i = 1

====
